---- MODULE Spec2Model ----
(***************************************************************************)
(* Fiscal validation engine (fiscal/domain/validations.py) and the agent   *)
(* layer that caches its results (fiscal/agents); exploratory analysis     *)
(* (eda/domain/analysis.py) and header normalisation of the loader.         *)
(*                                                                         *)
(* Text cells are sequences of one-character strings, so that the regular  *)
(* expressions and digit filters of the source can be computed.  Money is  *)
(* counted in cents, quantities in tenths of a unit, rates in percent.     *)
(***************************************************************************)
EXTENDS Integers, Sequences, FiniteSets, TLC

VARIABLES
    df,           \* the dataset handed to run_core_validations
    pc,           \* "loaded" | "done" | "done2" | "offenders" | "ranked" | "agent"
    result,       \* outcome of the first run_core_validations call
    result2,      \* outcome of a second call on the same dataset
    off_results,  \* the results handed to offenders_by
    off_top,      \* the table offenders_by returned
    ctx,          \* AgentDataContext: df, metadata, version
    orch,         \* FiscalOrchestrator: _context_version, validation_results, _agents
    run,          \* the agent run in progress (the AgentExecutor invoked by answer)
    ret,          \* what the last tool call returned
    fn_args,      \* the arguments of a call of a data-analysis or loader function
    fn_out        \* what that call returned

vars == <<df, pc, result, result2, off_results, off_top, ctx, orch, run, ret, fn_args, fn_out>>

-----------------------------------------------------------------------------
(* Bounds of the model *)

MaxMissing == 2      \* columns removed from the full schema
MaxNotaRows == 2     \* rows of a dataset in the note-total family
MaxTail == 4         \* characters appended to the six-digit NCM stem
MaxResults == 3      \* results handed to offenders_by
MaxDetails == 2      \* details rows per hand-built result
MaxDupRows == 3      \* rows of a dataset in the duplicate-items family
MaxVersion == 2      \* dataset replacements per context

(* Program constants *)

Tolerance == 100     \* "> 1.0" currency unit, in cents
NcmDigits == 8       \* \d{8}
CnpjDigits == 14     \* len(digits) != 14
QtyScale == 10       \* quantities are counted in tenths
PctScale == 100      \* aliquota / 100.0

-----------------------------------------------------------------------------
(* Text and numeric cells *)

DigitChars == {"0", "1", "2", "3", "4", "5", "6", "7", "8", "9"}

NULL == <<"NULL">>                \* NaN / None in a text column
NaNText == <<"n", "a", "n">>      \* what astype(str) makes of NaN

Num(v) == [num |-> TRUE, v |-> v]     \* a numeric cell
NaN == [num |-> FALSE, v |-> 0]       \* a cell pd.to_numeric(errors="coerce") turns into NaN

Rep(c, k) == [i \in 1..k |-> c]

Abs(x) == IF x < 0 THEN -x ELSE x

astype_str(v) == IF v = NULL THEN NaNText ELSE v

IsDigits(s) == \A i \in 1..Len(s) : s[i] \in DigitChars

FirstDigitAt(s) ==
    IF \E i \in 1..Len(s) : s[i] \in DigitChars
    THEN CHOOSE i \in 1..Len(s) :
            /\ s[i] \in DigitChars
            /\ \A j \in 1..(i - 1) : s[j] \notin DigitChars
    ELSE 0

\* Series.str.extract(r"(\d+)"): the first maximal run of digits, NaN when none
ExtractDigitRun(s) ==
    IF s = NULL \/ FirstDigitAt(s) = 0 THEN NULL
    ELSE LET a == FirstDigitAt(s)
             b == CHOOSE e \in a..Len(s) :
                     /\ \A j \in a..e : s[j] \in DigitChars
                     /\ (e = Len(s) \/ s[e + 1] \notin DigitChars)
         IN SubSeq(s, a, b)

\* Series.str.extract(r"(\d)"): the first digit, NaN when none
ExtractDigit(s) ==
    IF s = NULL \/ FirstDigitAt(s) = 0 THEN NULL
    ELSE <<s[FirstDigitAt(s)]>>

\* numpy round to cents of n/d currency cents: nearest, ties to even
RoundHalfEven(n, d) ==
    LET q == n \div d
        r == n % d
    IN IF 2 * r < d THEN q
       ELSE IF 2 * r > d THEN q + 1
       ELSE IF q % 2 = 0 THEN q ELSE q + 1

Indices(d) == [i \in 1..Len(d.rows) |-> i]

RECURSIVE SumSeq(_)
SumSeq(s) == IF s = <<>> THEN 0 ELSE Head(s) + SumSeq(Tail(s))

-----------------------------------------------------------------------------
(* Schema *)

MANDATORY_COLUMNS ==
    {"chave_acesso", "numero", "numero_item", "cfop", "ncm", "quantidade",
     "valor_unitario", "valor_total_item", "valor_total_nota"}

_TOTAL_NOTA_FALLBACK == <<"valor_total_nota", "valor_nota_fiscal">>

OptionalColumns ==
    {"valor_nota_fiscal", "descricao_item", "destino_operacao", "cnpj_emitente",
     "cnpj_destinatario", "base_icms", "aliquota_icms", "valor_icms",
     "razao_emitente", "razao_destinatario"}

AllColumns == MANDATORY_COLUMNS \cup OptionalColumns

\* destination code -> expected first digit of the CFOP
CFOP_PREFIX_RULES == [c \in {"1", "2", "3"} |->
    IF c = "1" THEN {"5"} ELSE IF c = "2" THEN {"6"} ELSE {"7"}]

-----------------------------------------------------------------------------
(* Individual validations: each returns its details table, a sequence of   *)
(* records in dataset order; idx is the row's index in the dataset.        *)

\* Variant: keep="first", only the later members of a group are marked
duplicated_keep_first(d, i) ==
    \E j \in 1..(i - 1) :
        /\ d.rows[j].chave_acesso = d.rows[i].chave_acesso
        /\ d.rows[j].numero_item = d.rows[i].numero_item

\* df.duplicated(subset=["chave_acesso", "numero_item"], keep=False)
duplicated(d, i) ==
    \E j \in 1..Len(d.rows) :
        /\ j # i
        /\ d.rows[j].chave_acesso = d.rows[i].chave_acesso
        /\ d.rows[j].numero_item = d.rows[i].numero_item

_detect_duplicate_items(d) ==
    LET hit == SelectSeq(Indices(d), LAMBDA i : duplicated(d, i))
    IN [k \in 1..Len(hit) |->
          LET r == d.rows[hit[k]]
          IN [idx |-> hit[k], chave_acesso |-> r.chave_acesso, numero |-> r.numero,
              numero_item |-> r.numero_item, descricao_item |-> r.descricao_item,
              valor_total_item |-> r.valor_total_item]]

cfop_str(r) == ExtractDigitRun(astype_str(r.cfop))

destino_codigo(r) == ExtractDigit(r.destino_operacao)

DestRecognized(r) ==
    /\ destino_codigo(r) # NULL
    /\ destino_codigo(r)[1] \in DOMAIN CFOP_PREFIX_RULES

\* row["cfop_str"][:1] on a NaN cfop_str: 'float' object is not subscriptable
MismatchRaises(r) == DestRecognized(r) /\ cfop_str(r) = NULL

mismatch(r) ==
    IF ~DestRecognized(r) THEN FALSE
    ELSE cfop_str(r)[1] \notin CFOP_PREFIX_RULES[destino_codigo(r)[1]]

_detect_cfop_mismatch(d) ==
    IF "destino_operacao" \notin d.cols THEN <<>>
    ELSE LET hit == SelectSeq(Indices(d), LAMBDA i : mismatch(d.rows[i]))
         IN [k \in 1..Len(hit) |->
               LET r == d.rows[hit[k]]
               IN [idx |-> hit[k], chave_acesso |-> r.chave_acesso, numero |-> r.numero,
                   numero_item |-> r.numero_item, cfop |-> r.cfop,
                   destino_operacao |-> r.destino_operacao,
                   destino_esperado |-> CFOP_PREFIX_RULES[destino_codigo(r)[1]],
                   valor_total_item |-> r.valor_total_item]]

\* str.replace(".0$", "", regex=True): the unescaped "." matches any character
ReplaceDotZero(s) ==
    IF Len(s) >= 2 /\ s[Len(s)] = "0" THEN SubSeq(s, 1, Len(s) - 2) ELSE s

ncm_str(r) == ReplaceDotZero(astype_str(r.ncm))

\* str.fullmatch(r"\d{8}")
FullMatchNcm(s) == Len(s) = NcmDigits /\ IsDigits(s)

_detect_invalid_ncm(d) ==
    LET hit == SelectSeq(Indices(d), LAMBDA i : ~FullMatchNcm(ncm_str(d.rows[i])))
    IN [k \in 1..Len(hit) |->
          LET r == d.rows[hit[k]]
          IN [idx |-> hit[k], chave_acesso |-> r.chave_acesso, numero |-> r.numero,
              numero_item |-> r.numero_item, ncm |-> r.ncm,
              descricao_item |-> r.descricao_item]]

RECURSIVE Flatten(_)
Flatten(ss) == IF ss = <<>> THEN <<>> ELSE Head(ss) \o Flatten(Tail(ss))

CnpjCols(d) ==
    SelectSeq(<<"cnpj_emitente", "cnpj_destinatario">>, LAMBDA c : c \in d.cols)

\* str(row[col]) if pd.notna(row[col]) else ""
CnpjValue(r, col) == IF r[col] # NULL THEN r[col] ELSE <<>>

\* "".join(filter(str.isdigit, value))
CnpjDigitsOf(value) == SelectSeq(value, LAMBDA c : c \in DigitChars)

\* if digits and len(digits) != 14
CnpjFlag(value) ==
    /\ CnpjDigitsOf(value) # <<>>
    /\ Len(CnpjDigitsOf(value)) # CnpjDigits

_detect_cnpj_issues(d) ==
    IF CnpjCols(d) = <<>> THEN <<>>
    ELSE Flatten([i \in 1..Len(d.rows) |->
           LET r == d.rows[i]
               cols == SelectSeq(CnpjCols(d), LAMBDA c : CnpjFlag(CnpjValue(r, c)))
           IN [k \in 1..Len(cols) |->
                 [idx |-> i, chave_acesso |-> r.chave_acesso, numero |-> r.numero,
                  campo |-> cols[k], valor_original |-> CnpjValue(r, cols[k]),
                  quantidade_digitos |-> Len(CnpjDigitsOf(CnpjValue(r, cols[k]))),
                  valor_total_item |-> r.valor_total_item]]])

\* rows that survive dropna(subset=["quantidade", "valor_unitario", "valor_total_item"])
ItemParses(r) == r.quantidade.num /\ r.valor_unitario.num /\ r.valor_total_item.num

\* (quantidade * valor_unitario).round(2)
esperado(r) == RoundHalfEven(r.quantidade.v * r.valor_unitario.v, QtyScale)

\* (valor_total_item - esperado).round(2)
item_diferenca(r) == r.valor_total_item.v - esperado(r)

\* Variant: the tolerance boundary itself is flagged (>= 1.0)
ItemFlagInclusive(r) == ItemParses(r) /\ Abs(item_diferenca(r)) >= Tolerance

\* work["diferenca"].abs() > 1.0
ItemFlag(r) == ItemParses(r) /\ Abs(item_diferenca(r)) > Tolerance

_detect_item_total_mismatch(d) ==
    LET hit == SelectSeq(Indices(d), LAMBDA i : ItemFlag(d.rows[i]))
    IN [k \in 1..Len(hit) |->
          LET r == d.rows[hit[k]]
          IN [idx |-> hit[k], chave_acesso |-> r.chave_acesso, numero |-> r.numero,
              numero_item |-> r.numero_item, descricao_item |-> r.descricao_item,
              quantidade |-> r.quantidade.v, valor_unitario |-> r.valor_unitario.v,
              valor_total_item |-> r.valor_total_item.v, esperado |-> esperado(r),
              diferenca |-> item_diferenca(r)]]

\* next((c for c in _TOTAL_NOTA_FALLBACK if c in df.columns), None)
nota_total_col(d) ==
    LET present == SelectSeq(_TOTAL_NOTA_FALLBACK, LAMBDA c : c \in d.cols)
    IN IF present = <<>> THEN "None" ELSE present[1]

\* Variant: notes are told apart by access key alone
SameNotaByKey(r, s) == r.chave_acesso = s.chave_acesso

SameNota(r, s) == r.chave_acesso = s.chave_acesso /\ r.numero = s.numero

\* groupby(["chave_acesso", "numero"])["valor_total_item"].sum(): NaN is skipped
soma_itens(d, r) ==
    SumSeq([j \in 1..Len(d.rows) |->
        IF SameNota(d.rows[j], r) /\ d.rows[j].valor_total_item.num
        THEN d.rows[j].valor_total_item.v ELSE 0])

\* drop_duplicates(subset=["chave_acesso", "numero"]): the first row of each note
NotaRef(d) ==
    SelectSeq(Indices(d), LAMBDA i : \A j \in 1..(i - 1) : ~SameNota(d.rows[j], d.rows[i]))

nota_diferenca(d, r) == r[nota_total_col(d)].v - soma_itens(d, r)

\* merged["diferenca"].abs() > 1.0, NaN compares false
NotaFlag(d, r) ==
    /\ r[nota_total_col(d)].num
    /\ Abs(nota_diferenca(d, r)) > Tolerance

_detect_nota_total_mismatch(d) ==
    IF nota_total_col(d) = "None" THEN <<>>
    ELSE LET hit == SelectSeq(NotaRef(d), LAMBDA i : NotaFlag(d, d.rows[i]))
         IN [k \in 1..Len(hit) |->
               LET r == d.rows[hit[k]]
               IN [idx |-> hit[k], chave_acesso |-> r.chave_acesso, numero |-> r.numero,
                   total |-> r[nota_total_col(d)].v, soma_itens |-> soma_itens(d, r),
                   diferenca |-> nota_diferenca(d, r)]]

IcmsParses(r) == r.base_icms.num /\ r.aliquota_icms.num /\ r.valor_icms.num

\* (base_icms * (aliquota_icms / 100.0)).round(2)
calculado(r) == RoundHalfEven(r.base_icms.v * r.aliquota_icms.v, PctScale)

icms_diferenca(r) == r.valor_icms.v - calculado(r)

\* Variant: the tolerance boundary itself is flagged (>= 1.0)
IcmsFlagInclusive(r) == IcmsParses(r) /\ Abs(icms_diferenca(r)) >= Tolerance

\* work["diferenca"].abs() > 1.0
IcmsFlag(r) == IcmsParses(r) /\ Abs(icms_diferenca(r)) > Tolerance

_detect_icms_mismatch(d) ==
    IF ~({"aliquota_icms", "base_icms", "valor_icms"} \subseteq d.cols) THEN <<>>
    ELSE LET hit == SelectSeq(Indices(d), LAMBDA i : IcmsFlag(d.rows[i]))
         IN [k \in 1..Len(hit) |->
               LET r == d.rows[hit[k]]
               IN [idx |-> hit[k], chave_acesso |-> r.chave_acesso, numero |-> r.numero,
                   numero_item |-> r.numero_item, descricao_item |-> r.descricao_item,
                   base_icms |-> r.base_icms.v, aliquota_icms |-> r.aliquota_icms.v,
                   valor_icms |-> r.valor_icms.v, calculado |-> calculado(r),
                   diferenca |-> icms_diferenca(r)]]

-----------------------------------------------------------------------------
(* run_core_validations *)

\* Variant: valor_total_nota is forgiven whether or not the fallback column exists
missing_cols_fallback_unchecked(d) == (MANDATORY_COLUMNS \ d.cols) \ {"valor_total_nota"}

\* MANDATORY_COLUMNS.difference(df.columns), valor_nota_fiscal standing in for
\* valor_total_nota
missing_cols(d) ==
    LET missing == MANDATORY_COLUMNS \ d.cols
    IN IF "valor_total_nota" \in missing /\ "valor_nota_fiscal" \in d.cols
       THEN missing \ {"valor_total_nota"}
       ELSE missing

ValidationResult(identifier, title, severity, details) ==
    [identifier |-> identifier, title |-> title, severity |-> severity,
     details |-> details]

\* if not details.empty: checks.append(ValidationResult(...))
\* Variant: a rule without findings still contributes a result
AppendCheckAlways(identifier, title, severity, details) ==
    <<ValidationResult(identifier, title, severity, details)>>

AppendCheck(identifier, title, severity, details) ==
    IF Len(details) = 0 THEN <<>>
    ELSE <<ValidationResult(identifier, title, severity, details)>>

Raised(exc, ran) == [outcome |-> exc, checks |-> <<>>, ran |-> ran]

\* outcome "ok": the list returned; any other outcome: the exception raised.
\* ran lists the rules that were entered.
run_core_validations(d) ==
    IF missing_cols(d) # {} THEN Raised("ValueError", <<>>)
    ELSE IF "descricao_item" \notin d.cols
    THEN Raised("KeyError", <<"duplicate_items">>)
    ELSE IF "destino_operacao" \in d.cols
            /\ \E i \in 1..Len(d.rows) : MismatchRaises(d.rows[i])
    THEN Raised("TypeError", <<"duplicate_items", "cfop_destino">>)
    ELSE [outcome |-> "ok",
          checks |->
              AppendCheck("duplicate_items", "Itens duplicados na nota", "alta",
                          _detect_duplicate_items(d))
              \o AppendCheck("cfop_destino",
                             "CFOP incompativel com o destino da operacao", "alta",
                             _detect_cfop_mismatch(d))
              \o AppendCheck("ncm_invalido", "NCM invalido ou incompleto", "media",
                             _detect_invalid_ncm(d))
              \o AppendCheck("cnpj_invalido",
                             "CNPJ emitente/destinatario inconsistente", "media",
                             _detect_cnpj_issues(d))
              \o AppendCheck("valor_item_divergente",
                             "Valor total do item difere da multiplicacao", "alta",
                             _detect_item_total_mismatch(d))
              \o AppendCheck("valor_nota_divergente",
                             "Valor total da nota difere da soma dos itens", "alta",
                             _detect_nota_total_mismatch(d))
              \o AppendCheck("icms_incoerente", "ICMS incoerente", "media",
                             _detect_icms_mismatch(d)),
          ran |-> <<"duplicate_items", "cfop_destino", "ncm_invalido", "cnpj_invalido",
                    "valor_item_divergente", "valor_nota_divergente",
                    "icms_incoerente">>]

\* Variant: the item rule coerces and drops rows on the caller's frame
FrameAfterInplaceDropna(d) ==
    [d EXCEPT !.rows = SelectSeq(d.rows,
        LAMBDA r : r.quantidade.num /\ r.valor_unitario.num /\ r.valor_total_item.num)]

\* The dataset as run_core_validations leaves it: every helper selects its
\* columns into a .copy() and coerces, drops and adds columns on that copy.
FrameAfterValidations(d) == d

\* The details table of rule id in a list of results, empty when the rule is absent
DetailsOf(checks, id) ==
    LET hit == SelectSeq(checks, LAMBDA c : c.identifier = id)
    IN IF hit = <<>> THEN <<>> ELSE hit[1].details

\* The dataset rows a details table lists
FlaggedIdx(details) == {details[k].idx : k \in 1..Len(details)}

-----------------------------------------------------------------------------
(* Finding aggregation *)

\* res.details.columns
DetailsColumns(details) == IF Len(details) = 0 THEN {} ELSE DOMAIN details[1]

\* The (group value, rule title) rows of every result whose details have the
\* group column, concatenated: tmp[[group, "regra"]] over the frames
OffenderPairs(results, group) ==
    Flatten([k \in 1..Len(results) |->
        IF group \notin DetailsColumns(results[k].details) THEN <<>>
        ELSE [j \in 1..Len(results[k].details) |->
                [value |-> results[k].details[j][group], regra |-> results[k].title]]])

HasFrames(results, group) ==
    \E k \in 1..Len(results) : group \in DetailsColumns(results[k].details)

\* data.value_counts().reset_index(name="ocorrencias"): one row per distinct
\* (group value, regra) combination, rows holding a null dropped
OffenderCounts(results, group) ==
    LET data == OffenderPairs(results, group)
        kept == {data[i] : i \in {j \in 1..Len(data) : data[j].value # "NaN"}}
    IN {[value |-> p.value, regra |-> p.regra,
         ocorrencias |-> Cardinality({i \in 1..Len(data) : data[i] = p})] : p \in kept}

\* The tables offenders_by may return: the counted rows by ocorrencias descending,
\* rows of equal count in any order (sort_values does not order ties)
offenders_by(results, group) ==
    IF ~HasFrames(results, group) THEN {<<>>}
    ELSE LET rows == OffenderCounts(results, group)
             n == Cardinality(rows)
         IN {t \in [1..n -> rows] :
                /\ \A i, j \in 1..n : i # j => t[i] # t[j]
                /\ \A i \in 1..(n - 1) : t[i].ocorrencias >= t[i + 1].ocorrencias}

-----------------------------------------------------------------------------
(* Agent layer: AgentDataContext, the tool closures and FiscalOrchestrator. *)
(* An optional value is <<>> (None) or <<x>>.                               *)

None == <<>>
Some(x) == <<x>>
Get(o) == o[1]

\* AgentDataContext(df=df): empty metadata, version 0
AgentDataContext(dfOpt) ==
    [df |-> dfOpt, validation_results |-> None, source |-> "None",
     has_raw |-> FALSE, has_table |-> FALSE, version |-> 0]

\* require_dataframe raises ValueError on a missing or empty dataframe
RequireFails(c) ==
    IF c.df = None THEN TRUE
    ELSE Get(c.df).rows = <<>>

\* get_results of build_validation_tools / build_auditing_tools: the context
\* after the call, how it ended ("ok" or the exception) and the list returned
get_results(c, cached) ==
    IF c.validation_results # None
    THEN [ctx |-> c, outcome |-> "ok", results |-> Get(c.validation_results)]
    ELSE IF cached # None
    THEN [ctx |-> [c EXCEPT !.validation_results = cached], outcome |-> "ok",
          results |-> Get(cached)]
    ELSE IF RequireFails(c)
    THEN [ctx |-> c, outcome |-> "ValueError", results |-> <<>>]
    ELSE LET r == run_core_validations(Get(c.df))
         IN IF r.outcome = "ok"
            THEN [ctx |-> [c EXCEPT !.validation_results = Some(r.checks)],
                  outcome |-> "ok", results |-> r.checks]
            ELSE [ctx |-> c, outcome |-> r.outcome, results |-> <<>>]

\* What a tool hands back: the context it leaves, the kind of text returned
\* ("error" is str(exc) of a ValueError, "raised" an exception the tool does
\* not catch) and the list get_results gave it
ToolReturn(g, kind) ==
    [ctx |-> g.ctx,
     kind |-> IF g.outcome = "ValueError" THEN "error"
              ELSE IF g.outcome # "ok" THEN "raised" ELSE kind,
     results |-> IF g.outcome = "ok" THEN Some(g.results) ELSE None]

\* summarize_issues(results).empty
SummaryEmpty(results) == Len(results) = 0

resumo(c, cached) ==
    LET g == get_results(c, cached)
    IN ToolReturn(g, IF SummaryEmpty(g.results) THEN "none_found" ELSE "table")

detalhes(c, cached, rule_id) ==
    LET g == get_results(c, cached)
        hit == SelectSeq(g.results, LAMBDA x : x.identifier = rule_id)
    IN ToolReturn(g, IF hit = <<>> THEN "rule_not_found"
                     ELSE IF Len(hit[Len(hit)].details) = 0 THEN "no_occurrences"
                     ELSE "table")

sugerir_correcoes(c, cached, rule_id) == ToolReturn(get_results(c, cached), "tip")

resumo_riscos(c, cached) ==
    LET g == get_results(c, cached)
    IN ToolReturn(g, IF SummaryEmpty(g.results) THEN "none_found" ELSE "table")

OffendersEmpty(results, group) == \A t \in offenders_by(results, group) : t = <<>>

maiores_agressores(c, cached) ==
    LET g == get_results(c, cached)
    IN ToolReturn(g, IF OffendersEmpty(g.results, "razao_emitente")
                        /\ OffendersEmpty(g.results, "razao_destinatario")
                     THEN "no_ranking" ELSE "table")

gerar_relatorio(c, cached) ==
    LET g == get_results(c, cached)
    IN ToolReturn(g, IF SummaryEmpty(g.results) THEN "none_found" ELSE "table")

\* reload_uploaded on success: the freshly loaded frame replaces the dataframe,
\* the metadata is cleared and rebuilt around the raw content, the version bumped
ReloadedContext(c, loaded) ==
    [df |-> Some(loaded), validation_results |-> None, source |-> "file",
     has_raw |-> TRUE, has_table |-> FALSE, version |-> c.version + 1]

\* load_supabase on success
SupabaseContext(c, loaded) ==
    [df |-> Some(loaded), validation_results |-> None, source |-> "supabase",
     has_raw |-> FALSE, has_table |-> TRUE, version |-> c.version + 1]

\* reload refused: the last load came from Supabase, there is no raw content
\* (nor a readable saved file), or load_fiscal_dataframe raised (loaded = None)
ReloadFails(c, loaded) == c.source = "supabase" \/ ~c.has_raw \/ loaded = None

\* Variant: the metadata is cleared before the file is parsed
reload_uploaded_clearing(c, loaded) ==
    IF c.source = "supabase" \/ ~c.has_raw
    THEN [ctx |-> c, kind |-> "reload_failed", results |-> None]
    ELSE IF loaded = None
    THEN [ctx |-> [c EXCEPT !.validation_results = None, !.has_table = FALSE],
          kind |-> "reload_failed", results |-> None]
    ELSE [ctx |-> ReloadedContext(c, Get(loaded)), kind |-> "reloaded", results |-> None]

\* reload_uploaded: an error message and nothing else when refused; otherwise
\* the dataset is replaced
reload_uploaded(c, loaded) ==
    IF ReloadFails(c, loaded)
    THEN [ctx |-> c, kind |-> "reload_failed", results |-> None]
    ELSE [ctx |-> ReloadedContext(c, Get(loaded)), kind |-> "reloaded", results |-> None]

\* load refused: no table name in the parameters or the metadata, a limit that
\* is not an integer, or load_supabase_table raised (loaded = None)
LoadFails(c, loaded, table_given, limit_ok) ==
    (~table_given /\ ~c.has_table) \/ ~limit_ok \/ loaded = None

load_supabase(c, loaded, table_given, limit_ok) ==
    IF LoadFails(c, loaded, table_given, limit_ok)
    THEN [ctx |-> c, kind |-> "load_failed", results |-> None]
    ELSE [ctx |-> SupabaseContext(c, Get(loaded)), kind |-> "loaded", results |-> None]

\* the load_supabase tool is offered when the metadata names a Supabase source
OffersSupabase(c) == c.source = "supabase" \/ c.has_table

\* results the app computes before building the orchestrator: the list, or []
\* when run_core_validations raised
AppValidationResults(d) ==
    LET r == run_core_validations(d)
    IN IF r.outcome = "ok" THEN r.checks ELSE <<>>

\* FiscalOrchestrator.__init__(df=, context=, validation_results=)
FiscalOrchestratorInit(dfArg, ctxArg, vrArg) ==
    LET c0 == IF ctxArg = None THEN AgentDataContext(dfArg)
              ELSE IF dfArg # None THEN [Get(ctxArg) EXCEPT !.df = dfArg]
              ELSE Get(ctxArg)
        c1 == IF vrArg # None THEN [c0 EXCEPT !.validation_results = vrArg]
              ELSE IF c0.validation_results = None /\ c0.df # None
              THEN [c0 EXCEPT !.validation_results =
                        Some(AppValidationResults(Get(c0.df)))]
              ELSE c0
    IN [ctx |-> c1,
        orch |-> [context_version |-> c1.version,
                  validation_results |-> c1.validation_results,
                  agents |-> <<>>, builds |-> 0, clears |-> 0]]

Domains == {"validacao", "auditoria", "integracao"}

\* an unknown domain gets the validation tools and is stored as "validacao"
AgentKey(domain) == IF domain \in Domains THEN domain ELSE "validacao"

\* FiscalOrchestrator._get_agent(domain): the orchestrator after the call
\* Variant: the cache survives a change of version
_get_agent_keeping(o, c, domain) ==
    LET o1 == IF o.context_version # c.version
              THEN [o EXCEPT !.context_version = c.version,
                             !.validation_results = c.validation_results]
              ELSE o
        agent == [cached |-> IF domain = "integracao" THEN None
                             ELSE o1.validation_results,
                  can_supabase |-> OffersSupabase(c),
                  built_version |-> c.version, serial |-> o1.builds + 1]
    IN IF domain \in DOMAIN o1.agents THEN o1
       ELSE [o1 EXCEPT !.builds = @ + 1,
                       !.agents =
                [d \in DOMAIN o1.agents \cup {AgentKey(domain)} |->
                    IF d = AgentKey(domain) THEN agent ELSE o1.agents[d]]]

\* builds counts the calls of build_agent since the cache was last emptied and
\* clears the times it was emptied; an agent carries the count it was built
\* at, so two agents of one version are one object when their serials agree
_get_agent(o, c, domain) ==
    LET o1 == IF o.context_version # c.version
              THEN [context_version |-> c.version,
                    validation_results |-> c.validation_results,
                    agents |-> <<>>, builds |-> 0, clears |-> o.clears + 1]
              ELSE o
        agent == [cached |-> IF domain = "integracao" THEN None
                             ELSE o1.validation_results,
                  can_supabase |-> OffersSupabase(c),
                  built_version |-> c.version, serial |-> o1.builds + 1]
    IN IF domain \in DOMAIN o1.agents THEN o1
       ELSE [o1 EXCEPT !.builds = @ + 1,
                       !.agents =
                [d \in DOMAIN o1.agents \cup {AgentKey(domain)} |->
                    IF d = AgentKey(domain) THEN agent ELSE o1.agents[d]]]


-----------------------------------------------------------------------------
(* Input datasets *)

\* A row that violates no rule
GoodRow ==
    [chave_acesso |-> "K1", numero |-> "N1", numero_item |-> 1,
     cfop |-> <<"5", "1", "0", "2">>,
     ncm |-> <<"1", "2", "3", "4", "5", "6", "7", "8">>,
     quantidade |-> Num(10), valor_unitario |-> Num(250),
     valor_total_item |-> Num(250), valor_total_nota |-> Num(250),
     valor_nota_fiscal |-> Num(250), descricao_item |-> "item",
     destino_operacao |-> <<"1">>,
     cnpj_emitente |-> Rep("1", CnpjDigits), cnpj_destinatario |-> Rep("2", CnpjDigits),
     base_icms |-> Num(1000), aliquota_icms |-> Num(18), valor_icms |-> Num(180),
     razao_emitente |-> "ACME LTDA", razao_destinatario |-> "BETA SA"]

\* A row that violates every single-row rule
BadRow ==
    [GoodRow EXCEPT !.cfop = <<"6", "1", "0", "8">>, !.ncm = <<"1", "2", "3">>,
                    !.valor_total_item = Num(900), !.valor_total_nota = Num(500),
                    !.valor_nota_fiscal = Num(500),
                    !.cnpj_emitente = <<"1", "2", "3">>, !.valor_icms = Num(500)]

Dataset(cols, rows) == [cols |-> cols, rows |-> rows]

NoDataset == Dataset({}, <<>>)

\* Schemas with at most MaxMissing columns missing, over a row full of violations
ColsFamily(maxMissing) ==
    {Dataset(AllColumns \ gone, <<BadRow>>) :
        gone \in {g \in SUBSET AllColumns : Cardinality(g) <= maxMissing}}

ItemQuantities == {Num(5), Num(20), Num(25), NaN}
ItemPrices == {Num(1), Num(250), Num(333), NaN}
ItemDeltas == {-102, -101, -100, -99, -1, 0, 1, 99, 100, 101, 102}

\* One row whose item total lies around quantidade * valor_unitario +- 1.00
ItemTotalsAround(q, u) ==
    {Num(((q.v * u.v) \div QtyScale) + dl) : dl \in ItemDeltas} \cup {NaN}

ItemFamily ==
    UNION {{Dataset(AllColumns,
                    <<[GoodRow EXCEPT !.quantidade = qu[1], !.valor_unitario = qu[2],
                                      !.valor_total_item = t]>>) :
               t \in ItemTotalsAround(qu[1], qu[2])} :
           qu \in ItemQuantities \X ItemPrices}

NcmStem == <<"1", "2", "3", "4", "5", "6">>
NcmAlphabet == {"7", "0", ".", "a"}

NcmTexts(maxTail) ==
    {NULL} \cup
    UNION {{NcmStem \o t : t \in [1..n -> NcmAlphabet]} : n \in 0..maxTail}

NcmFamily(maxTail) ==
    {Dataset(AllColumns, <<[GoodRow EXCEPT !.ncm = n]>>) : n \in NcmTexts(maxTail)}

CfopTexts ==
    {<<"5", "1", "0", "2">>, <<"6", "1", "0", "8">>, <<"7", "1", "0", "1">>,
     <<"1", "1", "0", "2">>, <<"x", "5", "1", "0", "2">>, <<"5">>,
     <<"a", "b">>, NULL}

DestinoTexts ==
    {NULL, <<>>, <<"1">>, <<"2">>, <<"3">>, <<"9">>,
     <<"1", " ", "-", " ", "I">>, <<"x", "2">>, <<"a", "b">>}

CfopFamily ==
    {Dataset(cols, <<[GoodRow EXCEPT !.cfop = c, !.destino_operacao = o]>>) :
        c \in CfopTexts, o \in DestinoTexts,
        cols \in {AllColumns, AllColumns \ {"destino_operacao"}}}

CnpjTexts ==
    {NULL} \cup
    {h \o Rep("1", k) \o t :
        h \in {<<>>, <<".">>},
        k \in {0, 1, CnpjDigits - 1, CnpjDigits, CnpjDigits + 1},
        t \in {<<>>, <<"-">>, <<"x", "y">>}}

CnpjFamily ==
    {Dataset(AllColumns \ gone,
             <<[GoodRow EXCEPT !.cnpj_emitente = e, !.cnpj_destinatario = t]>>) :
        e \in CnpjTexts,
        t \in {NULL, <<>>, Rep("2", CnpjDigits), <<"2", "/", "2">>},
        gone \in SUBSET {"cnpj_emitente", "cnpj_destinatario"}}

NotaKeys == {<<"K1", "N1">>, <<"K1", "N2">>, <<"K2", "N1">>}
NotaItemTotals == {Num(5000), NaN}
NotaTotals == {Num(10100), Num(10101), NaN}

\* The declared total sits in the column the schema has: with valor_total_nota
\* present valor_nota_fiscal holds another amount, which must not be read.
\* Under the fallback schema every item total is numeric.
NotaRows(fallback) ==
    {[GoodRow EXCEPT !.chave_acesso = k[1], !.numero = k[2], !.valor_total_item = i,
                     !.valor_total_nota = IF fallback THEN Num(77777) ELSE t,
                     !.valor_nota_fiscal = IF fallback THEN t ELSE Num(77777)] :
        k \in NotaKeys, i \in IF fallback THEN {Num(5000)} ELSE NotaItemTotals,
        t \in NotaTotals}

NotaFamily(maxRows) ==
    UNION {{Dataset(AllColumns, rows) : rows \in [1..n -> NotaRows(FALSE)]}
           \cup {Dataset(AllColumns \ {"valor_total_nota"}, rows) :
                    rows \in [1..n -> NotaRows(TRUE)]} : n \in 1..maxRows}

IcmsBases == {Num(1000), Num(1033), NaN}
IcmsRates == {Num(18), Num(12), NaN}

\* One row whose valor_icms lies around base_icms * aliquota_icms / 100 +- 1.00
IcmsValuesAround(b, a) ==
    {Num(RoundHalfEven(b.v * a.v, PctScale) + dl) : dl \in ItemDeltas} \cup {NaN}

IcmsFamily ==
    UNION {{Dataset(AllColumns,
                    <<[GoodRow EXCEPT !.base_icms = ba[1], !.aliquota_icms = ba[2],
                                      !.valor_icms = v]>>) :
               v \in IcmsValuesAround(ba[1], ba[2])} :
           ba \in IcmsBases \X IcmsRates}

\* numero_item of a dataset loaded without that column (pd.NA); duplicated()
\* takes two missing values as equal
NoItem == 0

DupRows ==
    {[GoodRow EXCEPT !.chave_acesso = k, !.numero_item = n] :
        k \in {"K1", "K2"}, n \in {1, 2, NoItem}}

DupFamily(maxRows) ==
    UNION {{Dataset(AllColumns, rows) : rows \in [1..n -> DupRows]} : n \in 1..maxRows}

Datasets(maxMissing, maxTail, maxNotaRows, maxDupRows) ==
    ColsFamily(maxMissing) \cup ItemFamily \cup NcmFamily(maxTail) \cup CfopFamily \cup CnpjFamily
    \cup NotaFamily(maxNotaRows) \cup IcmsFamily \cup DupFamily(maxDupRows)

-----------------------------------------------------------------------------
(* Specification of the rule engine: a dataset is loaded, run_core_validations *)
(* is called on it, and called once more.                                      *)

NoTop == [group |-> "None", rows |-> <<>>]
NoResult == [outcome |-> "none", checks |-> <<>>, ran |-> <<>>]

NoCtx == [df |-> <<>>, validation_results |-> <<>>, source |-> "None",
          has_raw |-> FALSE, has_table |-> FALSE, version |-> 0]
NoOrch == [context_version |-> 0, validation_results |-> <<>>, agents |-> <<>>, builds |-> 0,
           clears |-> 0]
NoRun == [active |-> FALSE, domain |-> "None"]
NoRet == [tool |-> "none", kind |-> "none", results |-> <<>>]

NoArgs == [fn |-> "none"]
NoOut == [fn |-> "none"]

agent_vars == <<ctx, orch, run, ret>>
call_vars == <<fn_args, fn_out>>
offender_vars == <<off_results, off_top>>
rule_vars == <<df, result, result2>>

Init ==
    /\ df \in Datasets(MaxMissing, MaxTail, MaxNotaRows, MaxDupRows)
    /\ pc = "loaded"
    /\ result = NoResult
    /\ result2 = NoResult
    /\ off_results = <<>>
    /\ off_top = NoTop
    /\ fn_args = NoArgs
    /\ fn_out = NoOut
    /\ ctx = NoCtx
    /\ orch = NoOrch
    /\ run = NoRun
    /\ ret = NoRet

FirstCall ==
    /\ pc = "loaded"
    /\ result' = run_core_validations(df)
    /\ df' = FrameAfterValidations(df)
    /\ pc' = "done"
    /\ UNCHANGED <<result2, offender_vars, agent_vars, call_vars>>

SecondCall ==
    /\ pc = "done"
    /\ result2' = run_core_validations(df)
    /\ df' = FrameAfterValidations(df)
    /\ pc' = "done2"
    /\ UNCHANGED <<result, offender_vars, agent_vars, call_vars>>

Next == FirstCall \/ SecondCall

Spec == Init /\ [][Next]_vars

-----------------------------------------------------------------------------
(* Properties of the rule engine *)

Returned == pc \in {"done", "done2"}
Completed == Returned /\ result.outcome = "ok"

Flagged(id) == FlaggedIdx(DetailsOf(result.checks, id))

\* A mandatory column is absent; valor_nota_fiscal stands in for valor_total_nota
MandatoryAbsent(d) ==
    \E c \in MANDATORY_COLUMNS :
        /\ c \notin d.cols
        /\ ~(c = "valor_total_nota" /\ "valor_nota_fiscal" \in d.cols)

\* The rules entered before cfop_destino accept the dataset
OtherRulesAccept(d) == ~MandatoryAbsent(d) /\ "descricao_item" \in d.cols

CfopRuleRaises(d) ==
    "destino_operacao" \in d.cols /\ \E i \in 1..Len(d.rows) : MismatchRaises(d.rows[i])

\* C1: whenever a mandatory column is absent (valor_nota_fiscal counting for
\* valor_total_nota), run_core_validations raises the precondition error, has
\* entered no rule and returns no ValidationResult.
C1_MissingColumnIsFatal ==
    (Returned /\ MandatoryAbsent(df)) =>
        /\ result.outcome = "ValueError"
        /\ result.ran = <<>>
        /\ result.checks = <<>>

C1_Witness ==
    /\ pc = "done"
    /\ "ncm" \notin df.cols
    /\ MANDATORY_COLUMNS \ {"ncm"} \subseteq df.cols
    /\ result.outcome = "ValueError"

\* quantidade * valor_unitario taken to two decimals
ClaimedEsperado(r) == RoundHalfEven(r.quantidade.v * r.valor_unitario.v, QtyScale)

\* C2: in valor_item_divergente a row whose three inputs parse is flagged exactly
\* when |valor_total_item - quantidade*valor_unitario| > 1.00 (amounts in cents);
\* a row with an unparseable input is not flagged and the run still returns.
C2_ItemToleranceStrict ==
    Returned =>
        \A i \in 1..Len(df.rows) :
            LET r == df.rows[i]
                parses == r.quantidade.num /\ r.valor_unitario.num
                          /\ r.valor_total_item.num
            IN /\ result.outcome = "ok" =>
                    (i \in Flagged("valor_item_divergente")
                        <=> (parses /\ Abs(r.valor_total_item.v - ClaimedEsperado(r)) > 100))
               /\ (~parses /\ OtherRulesAccept(df) /\ ~CfopRuleRaises(df))
                    => (result.outcome = "ok" /\ i \notin Flagged("valor_item_divergente"))

\* quantidade 2.0 x 2.50 = 5.00: an item total of 6.01 is flagged
C2_Witness ==
    /\ pc = "done"
    /\ df.rows[1].quantidade = Num(20)
    /\ df.rows[1].valor_unitario = Num(250)
    /\ df.rows[1].valor_total_item = Num(601)
    /\ 1 \in Flagged("valor_item_divergente")

\* The NCM text with a literal trailing ".0" removed
StripLiteralDotZero(s) ==
    IF Len(s) >= 2 /\ s[Len(s) - 1] = "." /\ s[Len(s)] = "0"
    THEN SubSeq(s, 1, Len(s) - 2) ELSE s

\* C3: in ncm_invalido a row is flagged exactly when its NCM text, a literal
\* trailing ".0" removed, is not eight decimal digits.
C3_NcmEightDigits ==
    Completed =>
        \A i \in 1..Len(df.rows) :
            LET text == StripLiteralDotZero(astype_str(df.rows[i].ncm))
            IN i \in Flagged("ncm_invalido")
                <=> ~(Len(text) = 8 /\ IsDigits(text))

ClaimedPrefix(code) == IF code = "1" THEN "5" ELSE IF code = "2" THEN "6" ELSE "7"

\* C4: in cfop_destino a row is flagged exactly when its destination code is one
\* of 1, 2, 3 and the first digit of its CFOP is not 5, 6, 7 respectively (a CFOP
\* without any digit has no expected first digit); a row with a missing or
\* unrecognized destination code is never flagged.
C4_CfopMatchesDestination ==
    (Returned /\ OtherRulesAccept(df)) =>
        \A i \in 1..Len(df.rows) :
            LET r == df.rows[i]
                code == IF "destino_operacao" \in df.cols
                        THEN ExtractDigit(r.destino_operacao) ELSE NULL
                cfop == ExtractDigitRun(astype_str(r.cfop))
            IN i \in Flagged("cfop_destino")
                <=> /\ code # NULL
                    /\ code[1] \in {"1", "2", "3"}
                    /\ (cfop = NULL \/ cfop[1] # ClaimedPrefix(code[1]))

\* The declared total of the note row r belongs to, as the claim reads it
ClaimedDeclared(d, r) ==
    IF "valor_total_nota" \in d.cols THEN r.valor_total_nota ELSE r.valor_nota_fiscal

ClaimedGroup(d, r) ==
    {j \in 1..Len(d.rows) :
        /\ d.rows[j].chave_acesso = r.chave_acesso
        /\ d.rows[j].numero = r.numero}

ClaimedFirst(d, r) == CHOOSE j \in ClaimedGroup(d, r) : \A k \in ClaimedGroup(d, r) : j <= k

ClaimedSum(d, r) ==
    SumSeq([j \in 1..Len(d.rows) |->
        IF j \in ClaimedGroup(d, r) /\ d.rows[j].valor_total_item.num
        THEN d.rows[j].valor_total_item.v ELSE 0])

\* C5: in valor_nota_divergente each (chave_acesso, numero) group has exactly one
\* details row when |declared total - sum of its item totals| > 1.00, carrying
\* diferenca = declared - sum, and none otherwise; the declared total is read
\* from valor_total_nota, from valor_nota_fiscal when that column is absent.
C5_NotaTotalPerGroup ==
    Completed =>
        LET det == DetailsOf(result.checks, "valor_nota_divergente")
        IN \A i \in 1..Len(df.rows) :
            LET r == df.rows[i]
                declared == ClaimedDeclared(df, df.rows[ClaimedFirst(df, r)])
                rows == {k \in 1..Len(det) :
                            det[k].chave_acesso = r.chave_acesso
                            /\ det[k].numero = r.numero}
            IN IF declared.num /\ Abs(declared.v - ClaimedSum(df, r)) > 100
               THEN /\ Cardinality(rows) = 1
                    /\ \A k \in rows : det[k].diferenca = declared.v - ClaimedSum(df, r)
               ELSE rows = {}

\* two items of 50.00 in one note declared at 101.01, read from valor_nota_fiscal
C5_Witness ==
    /\ pc = "done"
    /\ Len(df.rows) >= 2
    /\ "valor_total_nota" \notin df.cols
    /\ \E k \in 1..Len(DetailsOf(result.checks, "valor_nota_divergente")) :
          /\ DetailsOf(result.checks, "valor_nota_divergente")[k].soma_itens = 10000
          /\ DetailsOf(result.checks, "valor_nota_divergente")[k].diferenca = 101

\* identifiers and details row counts of a call's outcome
Summary(res) ==
    [outcome |-> res.outcome,
     rules |-> [k \in 1..Len(res.checks) |->
                  <<res.checks[k].identifier, Len(res.checks[k].details)>>]]

C10_CnpjFourteenDigits ==
    Completed =>
        LET det == DetailsOf(result.checks, "cnpj_invalido")
        IN \A i \in 1..Len(df.rows) :
             \A col \in {"cnpj_emitente", "cnpj_destinatario"} \cap df.cols :
                LET v == df.rows[i][col]
                    value == IF v = NULL THEN <<>> ELSE v
                    digits == SelectSeq(value, LAMBDA c : c \in DigitChars)
                    rows == {k \in 1..Len(det) : det[k].idx = i /\ det[k].campo = col}
                IN IF value # <<>> /\ Len(digits) # 14
                   THEN Cardinality(rows) = 1
                   ELSE rows = {}

HasIcmsColumns(d) == {"aliquota_icms", "base_icms", "valor_icms"} \subseteq d.cols

\* base_icms * aliquota_icms / 100 taken to two decimals
ClaimedCalculado(r) == RoundHalfEven(r.base_icms.v * r.aliquota_icms.v, 100)

\* C11: with one of base_icms, aliquota_icms, valor_icms absent the rule
\* icms_incoerente contributes no result and no error; otherwise a row whose
\* three values parse is flagged exactly when
\* |valor_icms - base_icms*aliquota_icms/100| > 1.00 (amounts in cents).
C11_IcmsToleranceStrict ==
    (Returned /\ OtherRulesAccept(df) /\ ~CfopRuleRaises(df)) =>
        /\ result.outcome = "ok"
        /\ ~HasIcmsColumns(df) =>
              \A k \in 1..Len(result.checks) :
                  result.checks[k].identifier # "icms_incoerente"
        /\ HasIcmsColumns(df) =>
              \A i \in 1..Len(df.rows) :
                  LET r == df.rows[i]
                  IN (r.base_icms.num /\ r.aliquota_icms.num /\ r.valor_icms.num) =>
                        (i \in Flagged("icms_incoerente")
                            <=> Abs(r.valor_icms.v - ClaimedCalculado(r)) > 100)

\* base 10.33 at 18% gives 1.86: a valor_icms of 2.87 is flagged
C11_Witness ==
    /\ pc = "done"
    /\ df.rows[1].base_icms = Num(1033)
    /\ df.rows[1].aliquota_icms = Num(18)
    /\ df.rows[1].valor_icms = Num(287)
    /\ 1 \in Flagged("icms_incoerente")

\* rows of d carrying the same (chave_acesso, numero_item) pair as row i
ClaimedPairGroup(d, i) ==
    {j \in 1..Len(d.rows) :
        /\ d.rows[j].chave_acesso = d.rows[i].chave_acesso
        /\ d.rows[j].numero_item = d.rows[i].numero_item}

\* C12: the details of duplicate_items list, once each, exactly the rows whose
\* (chave_acesso, numero_item) pair occurs in two or more rows of the dataset.
C12_DuplicateGroupsListed ==
    Completed =>
        LET det == DetailsOf(result.checks, "duplicate_items")
        IN \A i \in 1..Len(df.rows) :
              Cardinality({k \in 1..Len(det) : det[k].idx = i})
                  = IF Cardinality(ClaimedPairGroup(df, i)) >= 2 THEN 1 ELSE 0

\* three rows, the first and the last sharing their pair
C12_Witness ==
    /\ pc = "done"
    /\ Len(df.rows) = 3
    /\ ClaimedPairGroup(df, 1) = {1, 3}
    /\ Flagged("duplicate_items") = {1, 3}

RuleOrder ==
    <<"duplicate_items", "cfop_destino", "ncm_invalido", "cnpj_invalido",
      "valor_item_divergente", "valor_nota_divergente", "icms_incoerente">>

RulePosition(id) == CHOOSE p \in 1..Len(RuleOrder) : RuleOrder[p] = id

\* C17: a returned list has at most one result per rule identifier, every
\* result has a non-empty details table and a severity among alta, media,
\* baixa, and the identifiers follow the fixed order of the rules.
C17_ResultListWellFormed ==
    Completed =>
        /\ \A k \in 1..Len(result.checks) :
              /\ \E p \in 1..Len(RuleOrder) : RuleOrder[p] = result.checks[k].identifier
              /\ Len(result.checks[k].details) > 0
              /\ result.checks[k].severity \in {"alta", "media", "baixa"}
        /\ \A k \in 1..(Len(result.checks) - 1) :
              RulePosition(result.checks[k].identifier)
                  < RulePosition(result.checks[k + 1].identifier)

\* a list of several results from which some rule is missing
C17_Witness ==
    /\ pc = "done"
    /\ result.outcome = "ok"
    /\ Len(result.checks) >= 3
    /\ \A k \in 1..Len(result.checks) : result.checks[k].identifier # "duplicate_items"

\* the result of rule id is absent from the list returned
NoResultOf(id) == \A k \in 1..Len(result.checks) : result.checks[k].identifier # id

\* C23: on a dataset holding every mandatory column (valor_nota_fiscal counting
\* for valor_total_nota) run_core_validations returns a list whatever optional
\* columns are absent, and a rule whose optional column is absent contributes
\* no result.  Datasets on which the CFOP rule raises on a cell are left aside.
C23_OptionalColumnsOptional ==
    (Returned /\ ~MandatoryAbsent(df) /\ ~CfopRuleRaises(df)) =>
        /\ result.outcome = "ok"
        /\ "destino_operacao" \notin df.cols => NoResultOf("cfop_destino")
        /\ {"cnpj_emitente", "cnpj_destinatario"} \cap df.cols = {}
             => NoResultOf("cnpj_invalido")
        /\ ~({"base_icms", "aliquota_icms", "valor_icms"} \subseteq df.cols)
             => NoResultOf("icms_incoerente")

\* C24: when the dataset has the razao_emitente column and run_core_validations
\* flags a row, offenders_by over the results and that column is a non-empty
\* ranking holding the issuer of every flagged row, and likewise for
\* razao_destinatario.
C24_RankingWheneverFindings ==
    (Completed /\ result.checks # <<>>) =>
        \A group \in {"razao_emitente", "razao_destinatario"} \cap df.cols :
            \A t \in offenders_by(result.checks, group) :
                /\ t # <<>>
                /\ \A k \in 1..Len(result.checks) :
                      \A j \in 1..Len(result.checks[k].details) :
                          \E i \in 1..Len(t) :
                              t[i].value
                                = df.rows[result.checks[k].details[j].idx][group]

-----------------------------------------------------------------------------
(* Specification of offenders_by: a list of results whose details may carry *)
(* the issuer name is ranked by one grouping column.                        *)

RuleIdentifiers == <<"duplicate_items", "ncm_invalido", "icms_incoerente", "cnpj_invalido">>

RuleTitles ==
    <<"Itens duplicados na nota", "NCM invalido ou incompleto", "ICMS incoerente",
      "CNPJ emitente/destinatario inconsistente">>

IssuerNames == {"ACME LTDA", "BETA SA", "NaN"}

\* details tables: without the issuer column, or 1..MaxDetails rows carrying it
OffenderDetails ==
    {<<[chave_acesso |-> "K1"]>>} \cup
    UNION {{[j \in 1..n |-> [chave_acesso |-> "K1", razao_emitente |-> names[j]]] :
               names \in [1..n -> IssuerNames]} : n \in 1..MaxDetails}

OffenderInputs(maxResults) ==
    UNION {{[k \in 1..n |->
                ValidationResult(RuleIdentifiers[k], RuleTitles[k], "alta", dets[k])] :
               dets \in [1..n -> OffenderDetails]} : n \in 0..maxResults}

InitOffenders ==
    /\ pc = "offenders"
    /\ off_results \in OffenderInputs(MaxResults)
    /\ off_top = NoTop
    /\ fn_args = NoArgs
    /\ fn_out = NoOut
    /\ df = NoDataset
    /\ result = NoResult
    /\ result2 = NoResult
    /\ ctx = NoCtx
    /\ orch = NoOrch
    /\ run = NoRun
    /\ ret = NoRet

OffendersBy ==
    /\ pc = "offenders"
    /\ \E group \in {"razao_emitente", "razao_destinatario"} :
         \E top \in offenders_by(off_results, group) :
            off_top' = [group |-> group, rows |-> top]
    /\ pc' = "ranked"
    /\ UNCHANGED <<off_results, rule_vars, agent_vars, call_vars>>

NextOffenders == OffendersBy

SpecOffenders == InitOffenders /\ [][NextOffenders]_vars

\* the details rows of the input that carry issuer name v
RowsCarrying(v) ==
    {kj \in (1..Len(off_results)) \X (1..MaxDetails) :
        /\ kj[2] <= Len(off_results[kj[1]].details)
        /\ "razao_emitente" \in DetailsColumns(off_results[kj[1]].details)
        /\ off_results[kj[1]].details[kj[2]].razao_emitente = v}

NamesFlagged == {v \in IssuerNames \ {"NaN"} : RowsCarrying(v) # {}}

\* C6: offenders_by returns one row per distinct value of the group column, its
\* count the number of details rows carrying that value across all results,
\* sorted by count descending (two rules flagging ACME LTDA and one flagging
\* BETA SA: ACME first with 2, BETA with 1).
C6_OneRowPerOffender ==
    (pc = "ranked" /\ off_top.group = "razao_emitente") =>
        LET t == off_top.rows
        IN /\ \A v \in NamesFlagged :
                \E i \in 1..Len(t) :
                    /\ t[i].value = v
                    /\ t[i].ocorrencias = Cardinality(RowsCarrying(v))
                    /\ \A j \in 1..Len(t) : t[j].value = v => j = i
           /\ \A i \in 1..Len(t) : t[i].value \in NamesFlagged
           /\ \A i \in 1..(Len(t) - 1) : t[i].ocorrencias >= t[i + 1].ocorrencias

-----------------------------------------------------------------------------
(* Specification of the agent layer: an orchestrator is constructed, then    *)
(* questions are answered; within one agent run the model picks tools freely. *)

DsClean == Dataset(AllColumns, <<GoodRow>>)
DsDirty == Dataset(AllColumns, <<BadRow>>)
DsNoNcm == Dataset(AllColumns \ {"ncm"}, <<BadRow>>)
DsNoDescricao == Dataset(AllColumns \ {"descricao_item"}, <<BadRow>>)

\* what a file or a query can deliver; a query may deliver no rows at all
FileDatasets == {DsClean, DsDirty, DsNoNcm, DsNoDescricao}
QueryDatasets == FileDatasets \cup {NoDataset}

\* contexts handed to the constructor: plain, built around an uploaded file,
\* or built around a Supabase table
InitialContexts ==
    {[AgentDataContext(d) EXCEPT !.source = k[1], !.has_raw = k[2], !.has_table = k[3]] :
        d \in {None} \cup {Some(x) : x \in QueryDatasets},
        k \in {<<"None", FALSE, FALSE>>, <<"file", TRUE, FALSE>>,
               <<"supabase", FALSE, TRUE>>}}

InitAgent ==
    /\ pc = "agent"
    /\ \E dfArg \in {None} \cup {Some(x) : x \in FileDatasets},
          ctxArg \in {None} \cup {Some(c) : c \in InitialContexts},
          fromApp \in BOOLEAN :
            /\ ~(dfArg = None /\ ctxArg = None)
            /\ fromApp => (dfArg # None /\ ctxArg = None)
            /\ LET vrArg == IF fromApp THEN Some(AppValidationResults(Get(dfArg)))
                            ELSE None
                   built == FiscalOrchestratorInit(dfArg, ctxArg, vrArg)
               IN ctx = built.ctx /\ orch = built.orch
    /\ run = NoRun
    /\ ret = NoRet
    /\ df = NoDataset
    /\ result = NoResult
    /\ result2 = NoResult
    /\ off_results = <<>>
    /\ off_top = NoTop
    /\ fn_args = NoArgs
    /\ fn_out = NoOut

Agent == orch.agents[run.domain]

\* FiscalOrchestrator.answer up to agent.invoke: the domain is classified and
\* its agent fetched or built
Answer(domain) ==
    /\ ~run.active
    /\ orch' = _get_agent(orch, ctx, domain)
    /\ run' = [active |-> TRUE, domain |-> AgentKey(domain)]
    /\ ret' = NoRet
    /\ UNCHANGED <<ctx, pc, rule_vars, offender_vars, call_vars>>

\* agent.invoke returns
EndRun ==
    /\ run.active
    /\ run' = [run EXCEPT !.active = FALSE]
    /\ UNCHANGED <<ctx, orch, ret, pc, rule_vars, offender_vars, call_vars>>

\* a tool returned out: an exception it does not catch ends the run
Returns(tool, out) ==
    /\ ctx' = out.ctx
    /\ ret' = [tool |-> tool, kind |-> out.kind, results |-> out.results]
    /\ run' = [run EXCEPT !.active = (out.kind # "raised")]
    /\ UNCHANGED <<orch, pc, rule_vars, offender_vars, call_vars>>

RuleArgs == {"ncm_invalido", "cfop_destino", "xyz"}

ListarInconsistencias ==
    /\ run.active /\ run.domain = "validacao"
    /\ Returns("listar_inconsistencias", resumo(ctx, Agent.cached))

DetalharRegra ==
    /\ run.active /\ run.domain = "validacao"
    /\ \E rule_id \in RuleArgs :
         Returns("detalhar_regra", detalhes(ctx, Agent.cached, rule_id))

SugerirCorrecao ==
    /\ run.active /\ run.domain = "validacao"
    /\ \E rule_id \in RuleArgs :
         Returns("sugerir_correcao", sugerir_correcoes(ctx, Agent.cached, rule_id))

ResumoRiscos ==
    /\ run.active /\ run.domain = "auditoria"
    /\ Returns("resumo_riscos", resumo_riscos(ctx, Agent.cached))

MaioresAgressores ==
    /\ run.active /\ run.domain = "auditoria"
    /\ Returns("maiores_agressores", maiores_agressores(ctx, Agent.cached))

RelatorioAuditoria ==
    /\ run.active /\ run.domain = "auditoria"
    /\ Returns("relatorio_auditoria", gerar_relatorio(ctx, Agent.cached))

\* reload_uploaded: refused after a Supabase load, without raw content, or when
\* the file cannot be read or parsed; otherwise the dataset is replaced
ReloadUploaded ==
    /\ run.active
    /\ \E loaded \in {None} \cup {Some(x) : x \in FileDatasets} :
         /\ ~ReloadFails(ctx, loaded) => ctx.version < MaxVersion
         /\ Returns("reload_uploaded_fiscal_dataset", reload_uploaded(ctx, loaded))

\* load_supabase: refused without a table name or with a bad limit, and when
\* the query fails; otherwise the dataset is replaced
LoadSupabase ==
    /\ run.active
    /\ Agent.can_supabase
    /\ \E loaded \in {None} \cup {Some(x) : x \in QueryDatasets},
          table_given \in BOOLEAN, limit_ok \in BOOLEAN :
         /\ ~LoadFails(ctx, loaded, table_given, limit_ok) => ctx.version < MaxVersion
         /\ Returns("load_supabase_fiscal_dataset",
                    load_supabase(ctx, loaded, table_given, limit_ok))

\* FiscalOrchestrator(context=<the context in use>, df=...): a new orchestrator
\* is constructed around the existing context, with or without a dataframe
ConstructOnContext ==
    /\ ~run.active
    /\ \E dfArg \in {None} \cup {Some(x) : x \in FileDatasets} :
         LET built == FiscalOrchestratorInit(dfArg, Some(ctx), None)
         IN ctx' = built.ctx /\ orch' = built.orch
    /\ ret' = NoRet
    /\ UNCHANGED <<run, pc, rule_vars, offender_vars, call_vars>>

NextAgent ==
    \/ \E domain \in Domains : Answer(domain)
    \/ ConstructOnContext
    \/ EndRun
    \/ ListarInconsistencias
    \/ DetalharRegra
    \/ SugerirCorrecao
    \/ ResumoRiscos
    \/ MaioresAgressores
    \/ RelatorioAuditoria
    \/ ReloadUploaded
    \/ LoadSupabase

SpecAgent == InitAgent /\ [][NextAgent]_vars

\* C7: every list get_results hands to a tool was computed from the dataset the
\* context holds at that moment, whatever replacements went before.
C7_ResultsAreCurrent ==
    ret.results # None =>
        /\ ctx.df # None
        /\ Get(ret.results) = AppValidationResults(Get(ctx.df))

ResultTools ==
    {"listar_inconsistencias", "detalhar_regra", "resumo_riscos", "relatorio_auditoria"}

\* C8: when the dataset held lacks a mandatory column, every tool that needs the
\* rule results returns the precondition error message.
C8_PreconditionErrorSurfaced ==
    (ret.tool \in ResultTools /\ ctx.df # None /\ MandatoryAbsent(Get(ctx.df)))
        => ret.kind = "error"

\* C20: the version of the context never decreases, and every step that
\* replaces the dataset the context holds (a reload, a Supabase load, or a new
\* orchestrator constructed on the context with a dataframe) increases it.
C20_VersionTracksDataset ==
    [][/\ ctx'.version >= ctx.version
       /\ ctx'.df # ctx.df => ctx'.version > ctx.version]_vars

\* C28: a reload tool that fails returns its error message and leaves the
\* context's dataframe, metadata (cached validation_results included) and
\* version as they were.
C28_FailedReloadKeepsContext ==
    [][ret'.kind \in {"reload_failed", "load_failed"} => ctx' = ctx]_vars

\* a reload fails on a context that was replaced before and holds cached results
C28_Witness ==
    /\ ret.tool = "reload_uploaded_fiscal_dataset"
    /\ ret.kind = "reload_failed"
    /\ ctx.has_raw
    /\ ctx.source = "file"
    /\ ctx.version >= 1
    /\ ctx.validation_results # None

\* C30: when _get_agent returns, every cached agent was built at the version
\* the context has; an agent cached at that version is returned as it is, with
\* no agent built.
C30_CacheMatchesVersion ==
    [][(run'.active /\ ~run.active) =>
          /\ \A d \in DOMAIN orch'.agents : orch'.agents[d].built_version = ctx'.version
          /\ (orch.context_version = ctx.version /\ run'.domain \in DOMAIN orch.agents)
                => /\ orch'.agents[run'.domain].serial = orch.agents[run'.domain].serial
                   /\ orch'.builds = orch.builds]_vars

\* the cache was emptied after each of two replacements of the dataset and
\* holds one agent, built at the current version
C30_Witness ==
    /\ run.active
    /\ ctx.version = 2
    /\ orch.context_version = 2
    /\ orch.clears = 2
    /\ DOMAIN orch.agents = {run.domain}
    /\ Agent.built_version = 2
    /\ Agent.serial = 1

-----------------------------------------------------------------------------
(* Exploratory analysis (eda/domain/analysis.py).  A numeric column is a     *)
(* sequence of numeric cells; quartiles are kept as four times their value *)
(* and the outlier limits as eight times theirs, so that the linear        *)
(* interpolation of Series.quantile stays in the integers.                 *)

MaxFree == 3         \* free cells appended to the fixed cells of a column

MinOutlierRows == 8

\* Series.dropna(): the values of the numeric cells, in order
dropna(series) ==
    LET kept == SelectSeq(series, LAMBDA c : c.num)
    IN [i \in 1..Len(kept) |-> kept[i].v]

RECURSIVE SortInts(_)
SortInts(s) ==
    IF s = <<>> THEN <<>>
    ELSE LET m == CHOOSE i \in 1..Len(s) : \A j \in 1..Len(s) : s[i] <= s[j]
         IN <<s[m]>> \o SortInts([k \in 1..(Len(s) - 1) |-> IF k < m THEN s[k] ELSE s[k + 1]])

\* four times Series.quantile(k/4), linear interpolation between the order
\* statistics around position (n - 1) * k / 4
quantile4(values, k) ==
    LET s == SortInts(values)
        pos == (Len(s) - 1) * k
        lo == (pos \div 4) + 1
        rem == pos % 4
    IN IF rem = 0 THEN 4 * s[lo]
       ELSE 4 * s[lo] + rem * (s[lo + 1] - s[lo])

\* eight times q1 - 1.5 * iqr and q3 + 1.5 * iqr
lower8(values) == 2 * quantile4(values, 1) - 3 * (quantile4(values, 3) - quantile4(values, 1))
upper8(values) == 2 * quantile4(values, 3) + 3 * (quantile4(values, 3) - quantile4(values, 1))

\* Variant: a value on a limit counts as an outlier
OutlierMaskInclusive(v, values) == 8 * v <= lower8(values) \/ 8 * v >= upper8(values)

\* (series < lower) | (series > upper)
OutlierMask(v, values) == 8 * v < lower8(values) \/ 8 * v > upper8(values)

OutlierCount(values) ==
    Cardinality({i \in 1..Len(values) : OutlierMask(values[i], values)})

PercentScale == 10000

\* Variant: the share is taken over all the rows of the column
OutlierPercentOfRows(count, values, series) ==
    RoundHalfEven(count * PercentScale, Len(series))

\* round(count / len(series) * 100, 2) in hundredths of a percent, series
\* being the column after dropna()
OutlierPercent(count, values, series) ==
    RoundHalfEven(count * PercentScale, Len(values))

\* the record of one column, none when the column is passed over
OutlierRecord(col, series) ==
    LET values == dropna(series)
    IN IF Len(values) < MinOutlierRows THEN <<>>
       ELSE IF quantile4(values, 3) = quantile4(values, 1) THEN <<>>
       ELSE IF OutlierCount(values) = 0 THEN <<>>
       ELSE <<[coluna |-> col, outliers |-> OutlierCount(values),
               pct |-> OutlierPercent(OutlierCount(values), values, series),
               limite_inferior |-> lower8(values),
               limite_superior |-> upper8(values)]>>

detect_outliers(frame, numeric_cols) ==
    Flatten([k \in 1..Len(numeric_cols) |->
                OutlierRecord(numeric_cols[k], frame[numeric_cols[k]])])

SeriesFixed == <<Num(4), Num(4), Num(4), Num(6), Num(6), Num(6)>>
SeriesFree == {NaN, Num(0), Num(1), Num(6), Num(9), Num(40)}

SeriesFamily(maxFree) ==
    UNION {{SeriesFixed \o t : t \in [1..n -> SeriesFree]} : n \in 0..maxFree}

\* a second column: constant, or with one value far from the others
SecondSeries ==
    {[i \in 1..8 |-> Num(5)],
     <<Num(1), Num(2), Num(3), Num(4), Num(5), Num(6), Num(7), Num(100)>>}

OutlierArgs(maxFree) ==
    {[fn |-> "detect_outliers", frame |-> [a |-> sa, b |-> sb], numeric_cols |-> cols] :
        sa \in SeriesFamily(maxFree), sb \in SecondSeries, cols \in {<<"a">>, <<"b", "a">>}}

InitOutliers ==
    /\ pc = "call"
    /\ fn_args \in OutlierArgs(MaxFree)
    /\ fn_out = NoOut
    /\ df = NoDataset
    /\ result = NoResult
    /\ result2 = NoResult
    /\ off_results = <<>>
    /\ off_top = NoTop
    /\ ctx = NoCtx
    /\ orch = NoOrch
    /\ run = NoRun
    /\ ret = NoRet

DetectOutliers ==
    /\ pc = "call"
    /\ fn_out' = [fn |-> "detect_outliers",
                  records |-> detect_outliers(fn_args.frame, fn_args.numeric_cols)]
    /\ pc' = "returned"
    /\ UNCHANGED <<fn_args, rule_vars, offender_vars, agent_vars>>

NextOutliers == DetectOutliers

SpecOutliers == InitOutliers /\ [][NextOutliers]_vars

\* the non-null values of the column a record is about
ReportedValues(rec) == dropna(fn_args.frame[rec.coluna])

\* C13: for every column reported by detect_outliers the limits are
\* Q1 - 1.5*IQR and Q3 + 1.5*IQR (here eight times them) and the count is the
\* number of non-null values strictly below the lower or strictly above the
\* upper limit; a value on a limit is not counted.
C13_OutlierBounds ==
    pc = "returned" =>
        \A k \in 1..Len(fn_out.records) :
            LET rec == fn_out.records[k]
                v == ReportedValues(rec)
                q1 == quantile4(v, 1)
                q3 == quantile4(v, 3)
            IN /\ rec.limite_inferior = 2 * q1 - 3 * (q3 - q1)
               /\ rec.limite_superior = 2 * q3 + 3 * (q3 - q1)
               /\ rec.outliers =
                    Cardinality({i \in 1..Len(v) :
                        8 * v[i] < rec.limite_inferior \/ 8 * v[i] > rec.limite_superior})

\* a reported column with one value on the upper limit and one beyond it
C13_Witness ==
    /\ pc = "returned"
    /\ \E k \in 1..Len(fn_out.records) :
          LET rec == fn_out.records[k]
              v == ReportedValues(rec)
          IN /\ rec.outliers = 1
             /\ \E i \in 1..Len(v) : 8 * v[i] = rec.limite_superior
             /\ \E i \in 1..Len(v) : 8 * v[i] > rec.limite_superior

\* column col qualifies for the report
Qualifies(col) ==
    LET v == dropna(fn_args.frame[col])
    IN /\ Len(v) >= 8
       /\ quantile4(v, 3) # quantile4(v, 1)
       /\ \E i \in 1..Len(v) :
             \/ 8 * v[i] < 2 * quantile4(v, 1) - 3 * (quantile4(v, 3) - quantile4(v, 1))
             \/ 8 * v[i] > 2 * quantile4(v, 3) + 3 * (quantile4(v, 3) - quantile4(v, 1))

\* C21: a numeric column is in the detect_outliers report iff it has at least
\* 8 non-null values, a non-zero IQR and at least one flagged value; every
\* reported row has a count of at least 1 and a percentage of
\* 100 * count / (number of non-null values) rounded to 2 decimals.
C21_ReportedIffQualifies ==
    pc = "returned" =>
        /\ \A c \in 1..Len(fn_args.numeric_cols) :
              (\E k \in 1..Len(fn_out.records) :
                  fn_out.records[k].coluna = fn_args.numeric_cols[c])
              <=> Qualifies(fn_args.numeric_cols[c])
        /\ \A k \in 1..Len(fn_out.records) :
              LET rec == fn_out.records[k]
                  n == Len(ReportedValues(rec))
              IN /\ rec.outliers >= 1
                 /\ \E c \in 1..Len(fn_args.numeric_cols) :
                       fn_args.numeric_cols[c] = rec.coluna
                 /\ 2 * Abs(rec.pct * n - rec.outliers * 10000) <= n

\* a column with a missing cell is reported, one with no spread is passed over
C21_Witness ==
    /\ pc = "returned"
    /\ Len(fn_args.numeric_cols) = 2
    /\ Len(fn_out.records) = 1
    /\ fn_out.records[1].coluna = "a"
    /\ fn_out.records[1].outliers = 1
    /\ fn_out.records[1].pct = 1250
    /\ Len(fn_args.frame["a"]) = 9
    /\ ~Qualifies("b")

-----------------------------------------------------------------------------
(* summarize_relationships: the correlations list.  The Spearman matrix     *)
(* pandas computes is an input, in thousandths; NaN where a column has no   *)
(* variance.                                                                *)

MaxNumericCols == 4  \* numeric columns handed to summarize_relationships
MaxVaried == 3       \* consecutive column pairs whose correlation varies

TopPairs == 5
MinCorrelation == 200

ColumnNames == <<"a", "b", "c", "d", "e", "f">>

\* for i, col_i in enumerate(numeric_cols): for col_j in numeric_cols[i + 1:]
RECURSIVE PairsFrom(_, _)
PairsFrom(i, n) ==
    IF i >= n THEN <<>>
    ELSE [k \in 1..(n - i) |-> <<ColumnNames[i], ColumnNames[i + k]>>] \o PairsFrom(i + 1, n)

\* corr_pairs before sorting: the pairs whose correlation is not NaN, with
\* its absolute value
corr_pairs(n, rho) ==
    LET pairs == PairsFrom(1, n)
        all == [k \in 1..Len(pairs) |->
                   [variaveis |-> pairs[k], num |-> rho[k].num,
                    correlacao |-> Abs(rho[k].v)]]
        kept == SelectSeq(all, LAMBDA x : x.num)
    IN [k \in 1..Len(kept) |->
           [variaveis |-> kept[k].variaveis, correlacao |-> kept[k].correlacao]]

\* list.sort(key=score, reverse=True): descending, equal scores keep their order
RECURSIVE SortByScore(_)
SortByScore(s) ==
    IF s = <<>> THEN <<>>
    ELSE LET m == CHOOSE i \in 1..Len(s) :
                     /\ \A j \in 1..Len(s) : s[i].correlacao >= s[j].correlacao
                     /\ \A j \in 1..(i - 1) : s[j].correlacao < s[i].correlacao
         IN <<s[m]>> \o SortByScore([k \in 1..(Len(s) - 1) |->
                                        IF k < m THEN s[k] ELSE s[k + 1]])

\* Variant: a correlation of exactly 0.2 is left out
CorrKeepStrict(x) == x.correlacao > MinCorrelation

\* if score >= 0.2
CorrKeep(x) == x.correlacao >= MinCorrelation

\* summary["correlations"]
correlations(n, rho) ==
    LET sorted == SortByScore(corr_pairs(n, rho))
        top == SubSeq(sorted, 1, IF Len(sorted) < TopPairs THEN Len(sorted) ELSE TopPairs)
    IN IF n = 0 THEN <<>> ELSE SelectSeq(top, LAMBDA x : CorrKeep(x))

PairCount(n) == (n * (n - 1)) \div 2

Rhos == {NaN, Num(190), Num(200), Num(-210), Num(1000)}
RhoDefaults == {Num(210), Num(-500)}

\* matrices: one value everywhere but in a window of MaxVaried consecutive pairs
RhoFamily(n) ==
    LET len == IF MaxVaried < PairCount(n) THEN MaxVaried ELSE PairCount(n)
    IN {[k \in 1..PairCount(n) |->
            IF k >= from /\ k < from + len THEN w[k - from + 1] ELSE dflt] :
          w \in [1..len -> Rhos], dflt \in RhoDefaults,
          from \in 1..(PairCount(n) - len + 1)}

RelationshipArgs(maxCols) ==
    UNION {{[fn |-> "summarize_relationships", n |-> n, rho |-> rho] :
               rho \in RhoFamily(n)} :
           n \in 0..maxCols}

InitRelationships ==
    /\ pc = "call"
    /\ fn_args \in RelationshipArgs(MaxNumericCols)
    /\ fn_out = NoOut
    /\ df = NoDataset
    /\ result = NoResult
    /\ result2 = NoResult
    /\ off_results = <<>>
    /\ off_top = NoTop
    /\ ctx = NoCtx
    /\ orch = NoOrch
    /\ run = NoRun
    /\ ret = NoRet

SummarizeRelationships ==
    /\ pc = "call"
    /\ fn_out' = [fn |-> "summarize_relationships",
                  correlations |-> correlations(fn_args.n, fn_args.rho)]
    /\ pc' = "returned"
    /\ UNCHANGED <<fn_args, rule_vars, offender_vars, agent_vars>>

NextRelationships == SummarizeRelationships

SpecRelationships == InitRelationships /\ [][NextRelationships]_vars

\* the pairs with a correlation, as the column loops enumerate them
EnumeratedPairs == corr_pairs(fn_args.n, fn_args.rho)

\* pairs placed before pair k: a larger |rho|, or the same and enumerated earlier
RankedBefore(k) ==
    {j \in 1..Len(EnumeratedPairs) :
        \/ EnumeratedPairs[j].correlacao > EnumeratedPairs[k].correlacao
        \/ EnumeratedPairs[j].correlacao = EnumeratedPairs[k].correlacao /\ j < k}

Exceeding(k) ==
    {j \in 1..Len(EnumeratedPairs) :
        EnumeratedPairs[j].correlacao > EnumeratedPairs[k].correlacao}

Listed(k) ==
    \E i \in 1..Len(fn_out.correlations) :
        fn_out.correlations[i].variaveis = EnumeratedPairs[k].variaveis

\* C14 (as amended): the correlations list holds at most five entries in
\* descending order of |rho|, none below 0.2, and a pair is listed exactly when
\* its |rho| is at least 0.2 and fewer than five pairs are placed before it,
\* pairs of equal |rho| being placed in the order the column loops meet them.
C14_TopFiveByRank ==
    pc = "returned" =>
        /\ Len(fn_out.correlations) <= 5
        /\ \A i \in 1..Len(fn_out.correlations) : fn_out.correlations[i].correlacao >= 200
        /\ \A i \in 1..(Len(fn_out.correlations) - 1) :
              fn_out.correlations[i].correlacao >= fn_out.correlations[i + 1].correlacao
        /\ \A k \in 1..Len(EnumeratedPairs) :
              Listed(k) <=> (/\ EnumeratedPairs[k].correlacao >= 200
                             /\ Cardinality(RankedBefore(k)) < 5)
        /\ \A i \in 1..Len(fn_out.correlations) :
              \E k \in 1..Len(EnumeratedPairs) :
                  /\ EnumeratedPairs[k] = fn_out.correlations[i]
                  /\ Cardinality(RankedBefore(k)) = i - 1

\* six pairs: five are listed, and a pair at 0.21 that ties with listed ones
\* is left out
C14_Witness ==
    /\ pc = "returned"
    /\ Len(EnumeratedPairs) = 6
    /\ Len(fn_out.correlations) = 5
    /\ \E k \in 1..6 :
          /\ EnumeratedPairs[k].correlacao = 210
          /\ ~Listed(k)
          /\ \E i \in 1..5 : fn_out.correlations[i].correlacao = 210

\* C14 (as claimed): at most five entries, none below 0.2, in descending order,
\* and a pair with |rho| = 0.21 is listed whenever fewer than five pairs exceed it.
C14_AsClaimed ==
    pc = "returned" =>
        /\ Len(fn_out.correlations) <= 5
        /\ \A i \in 1..Len(fn_out.correlations) : fn_out.correlations[i].correlacao >= 200
        /\ \A i \in 1..(Len(fn_out.correlations) - 1) :
              fn_out.correlations[i].correlacao >= fn_out.correlations[i + 1].correlacao
        /\ \A k \in 1..Len(EnumeratedPairs) :
              (EnumeratedPairs[k].correlacao = 210 /\ Cardinality(Exceeding(k)) < 5)
                  => Listed(k)

-----------------------------------------------------------------------------
(* detect_clusters.  Whether scikit-learn imports, whether the scaler fails  *)
(* and what each KMeans fit scores (thousandths, NaN for a fit that raised)  *)
(* are given by the environment.                                             *)

MaxExtraRows == 2    \* rows above or below the row threshold, and rows with a gap

MinClusterFeatures == 2
MinClusterRows == 50
MaxClusterK == 5

\* df[numeric_cols].dropna(): the rows without a missing value
dropna_rows(rows) == SelectSeq(rows, LAMBDA r : \A c \in 1..Len(r) : r[c].num)

\* Variant: exactly 50 complete rows are not enough
TooFewRowsInclusive(subset) == Len(subset) <= MinClusterRows

\* subset.shape[0] < 50
TooFewRows(subset) == Len(subset) < MinClusterRows

SampleSize == 5000

\* subset.sample(5000, random_state=42) above 5000 rows; which rows are drawn
\* does not reach the report
sample(subset) ==
    IF Len(subset) > SampleSize THEN SubSeq(subset, 1, SampleSize) ELSE subset

\* Variant: a tie goes to the last k reaching the highest score
best_k_last(scores) ==
    LET good == {k \in 2..MaxClusterK : scores[k].num /\ scores[k].v > -1000}
    IN IF good = {} THEN 0
       ELSE CHOOSE k \in good :
               /\ \A j \in good : scores[j].v <= scores[k].v
               /\ \A j \in good : j > k => scores[j].v < scores[k].v

\* the loop over k: the first k with the highest score above -1.0, 0 when none
best_k(scores) ==
    LET good == {k \in 2..MaxClusterK : scores[k].num /\ scores[k].v > -1000}
    IN IF good = {} THEN 0
       ELSE CHOOSE k \in good :
               /\ \A j \in good : scores[j].v <= scores[k].v
               /\ \A j \in good : j < k => scores[j].v < scores[k].v

\* the labels fit_predict gives the n scaled rows for k clusters: every
\* cluster used in turn, or only the first two
fit_predict(pattern, k, n) ==
    [i \in 1..n |-> IF pattern = "spread" THEN (i - 1) % k ELSE (i - 1) % 2]

\* pd.Series(labels).value_counts().sort_index() as a dict: the labels that
\* occur, each with its number of rows
cluster_sizes(labels) ==
    LET present == {labels[i] : i \in 1..Len(labels)}
    IN [c \in present |-> Cardinality({i \in 1..Len(labels) : labels[i] = c})]

NoSizes == [c \in {} |-> 0]

detect_clusters(a) ==
    IF ~a.sklearn THEN [status |-> "missing_dependency", k |-> 0, cluster_sizes |-> NoSizes]
    ELSE IF a.numeric_cols < MinClusterFeatures
    THEN [status |-> "not_enough_features", k |-> 0, cluster_sizes |-> NoSizes]
    ELSE IF TooFewRows(dropna_rows(a.rows))
    THEN [status |-> "not_enough_rows", k |-> 0, cluster_sizes |-> NoSizes]
    ELSE IF a.scaler_fails THEN [status |-> "scaling_failed", k |-> 0, cluster_sizes |-> NoSizes]
    ELSE IF best_k(a.scores) = 0 THEN [status |-> "no_cluster", k |-> 0, cluster_sizes |-> NoSizes]
    ELSE [status |-> "ok", k |-> best_k(a.scores),
          cluster_sizes |->
              cluster_sizes(fit_predict(a.labels, best_k(a.scores),
                                        Len(sample(dropna_rows(a.rows)))))]

\* n rows without a gap followed by m rows whose first cell is missing
ClusterRows(cols, n, m) ==
    [i \in 1..(n + m) |-> [c \in 1..cols |-> IF i > n /\ c = 1 THEN NaN ELSE Num(i)]]

ClusterScores == [2..MaxClusterK -> {NaN, Num(-1000), Num(500)}]

\* every fit reaches the score of the first one, or raises
LevelScores == {x \in ClusterScores : \A k \in 3..MaxClusterK : x[k] = x[2] \/ x[k] = NaN}

\* fits of different scores
VariedScores == [2..MaxClusterK -> {NaN, Num(-1000), Num(500), Num(700)}]

ClusterArgs(maxExtra) ==
    {[fn |-> "detect_clusters", sklearn |-> dep, numeric_cols |-> cols,
      rows |-> ClusterRows(cols, n, m), scaler_fails |-> sf, scores |-> sc,
      labels |-> "spread"] :
        dep \in BOOLEAN, cols \in 0..3,
        n \in {0} \cup ((MinClusterRows - maxExtra)..(MinClusterRows + maxExtra)),
        m \in 0..maxExtra, sf \in BOOLEAN, sc \in LevelScores}
    \cup {[fn |-> "detect_clusters", sklearn |-> TRUE, numeric_cols |-> 2,
           rows |-> ClusterRows(2, MinClusterRows, 0), scaler_fails |-> FALSE,
           scores |-> sc, labels |-> lb] :
             sc \in VariedScores, lb \in {"spread", "pairs"}}
    \* frames at the sampling threshold
    \cup {[fn |-> "detect_clusters", sklearn |-> TRUE, numeric_cols |-> 2,
           rows |-> ClusterRows(2, n, m), scaler_fails |-> FALSE,
           scores |-> sc, labels |-> lb] :
             n \in {SampleSize, SampleSize + 1}, m \in {0, 1},
             sc \in LevelScores, lb \in {"spread", "pairs"}}

InitClusters ==
    /\ pc = "call"
    /\ fn_args \in ClusterArgs(MaxExtraRows)
    /\ fn_out = NoOut
    /\ df = NoDataset
    /\ result = NoResult
    /\ result2 = NoResult
    /\ off_results = <<>>
    /\ off_top = NoTop
    /\ ctx = NoCtx
    /\ orch = NoOrch
    /\ run = NoRun
    /\ ret = NoRet

DetectClusters ==
    /\ pc = "call"
    /\ fn_out' = [fn |-> "detect_clusters", value |-> detect_clusters(fn_args)]
    /\ pc' = "returned"
    /\ UNCHANGED <<fn_args, rule_vars, offender_vars, agent_vars>>

\* cluster_report_text: the message for a report of detect_clusters, None
\* when the function falls off its end
cluster_report_text(clusters) ==
    IF clusters.status = "missing_dependency" THEN Some("scikit-learn nao esta instalado")
    ELSE IF clusters.status = "not_enough_features"
    THEN Some("pelo menos duas colunas numericas")
    ELSE IF clusters.status = "not_enough_rows" THEN Some("Amostra insuficiente")
    ELSE IF clusters.status = "ok" THEN Some("Clusterizacao sugeriu k grupos")
    ELSE None

\* the cluster_report tool on a context holding the frame
ClusterReportTool ==
    /\ pc = "call"
    /\ fn_out' = [fn |-> "cluster_report", value |-> detect_clusters(fn_args),
                  text |-> cluster_report_text(detect_clusters(fn_args))]
    /\ pc' = "reported"
    /\ UNCHANGED <<fn_args, rule_vars, offender_vars, agent_vars>>

NextClusters == DetectClusters \/ ClusterReportTool

SpecClusters == InitClusters /\ [][NextClusters]_vars

\* rows of the call's frame with no missing value in the numeric columns
CompleteRows ==
    Cardinality({i \in 1..Len(fn_args.rows) :
        \A c \in 1..fn_args.numeric_cols : fn_args.rows[i][c].num})

\* C15: detect_clusters returns a status, decided in this order:
\* missing_dependency when the backend does not import; else
\* not_enough_features with fewer than 2 numeric columns; else not_enough_rows
\* with fewer than 50 complete rows; ok only when none of the three applies.
C15_ClusterStatusOrder ==
    pc = "returned" =>
        LET status == fn_out.value.status
        IN /\ status \in {"missing_dependency", "not_enough_features", "not_enough_rows",
                          "scaling_failed", "no_cluster", "ok"}
           /\ status = "missing_dependency" <=> ~fn_args.sklearn
           /\ status = "not_enough_features"
                <=> (fn_args.sklearn /\ fn_args.numeric_cols < 2)
           /\ status = "not_enough_rows"
                <=> (fn_args.sklearn /\ fn_args.numeric_cols >= 2 /\ CompleteRows < 50)
           /\ status = "ok"
                => (fn_args.sklearn /\ fn_args.numeric_cols >= 2 /\ CompleteRows >= 50)

\* the sum of the reported cluster sizes
RECURSIVE SumSizes(_, _)
SumSizes(sizes, labels) ==
    IF labels = {} THEN 0
    ELSE LET c == CHOOSE x \in labels : TRUE
         IN sizes[c] + SumSizes(sizes, labels \ {c})

\* the call reaches the loop over k
LoopReached ==
    /\ fn_args.sklearn
    /\ fn_args.numeric_cols >= 2
    /\ CompleteRows >= 50
    /\ ~fn_args.scaler_fails

\* the candidates whose fit succeeded
Fitted == {k \in 2..5 : fn_args.scores[k].num}

\* C22: with status ok the chosen k is in 2..5, its score is the highest of
\* the fits that succeeded and no smaller k reaches it, and the cluster sizes
\* sum to min(complete rows, 5000); no_cluster is returned exactly when the
\* loop over k is reached and no candidate scores above -1.
C22_BestKAndSizes ==
    pc = "returned" =>
        LET v == fn_out.value
        IN /\ v.status = "ok" =>
                /\ v.k \in Fitted
                /\ \A j \in Fitted : fn_args.scores[j].v <= fn_args.scores[v.k].v
                /\ \A j \in Fitted : j < v.k => fn_args.scores[j].v < fn_args.scores[v.k].v
                /\ SumSizes(v.cluster_sizes, DOMAIN v.cluster_sizes)
                     = (IF CompleteRows < 5000 THEN CompleteRows ELSE 5000)
           /\ v.status = "no_cluster"
                <=> (LoopReached /\ \A j \in Fitted : fn_args.scores[j].v <= -1000)

\* 5001 complete rows among 5002 are cut to 5000, and the four candidates tie
\* on the highest score: the smallest is chosen
C22_Witness ==
    /\ pc = "returned"
    /\ fn_out.value.status = "ok"
    /\ CompleteRows = 5001
    /\ Len(fn_args.rows) = 5002
    /\ \A k \in 2..5 : fn_args.scores[k] = Num(500)
    /\ fn_out.value.k = 2
    /\ fn_args.labels = "pairs"
    /\ fn_out.value.cluster_sizes = (0 :> 2500 @@ 1 :> 2500)

\* C27: for every status of detect_clusters the cluster_report tool returns a
\* non-empty message, never an absent value.
C27_ReportNeverAbsent ==
    pc = "reported" => fn_out.text # None /\ Get(fn_out.text) # ""

\* exactly 50 complete rows among 52 and two columns: clustering goes ahead
C15_Witness ==
    /\ pc = "returned"
    /\ fn_args.numeric_cols = 2
    /\ Len(fn_args.rows) = 52
    /\ CompleteRows = 50
    /\ fn_out.value.status = "ok"

-----------------------------------------------------------------------------
(* detect_temporal_patterns: which columns are taken as temporal.  A cell is *)
(* "date" when pd.to_datetime parses it, "text" when it does not, "null"    *)
(* when it is missing.                                                      *)

MaxDates == 11       \* cells of a column that parse as dates
MaxOther == 2        \* cells of a column that do not parse, and missing cells

MinParsedListed == 5

\* pd.to_datetime(series, errors="coerce").notna(): the cells that parse
parsed_notna(series) == SelectSeq(series, LAMBDA c : c = "date")

\* parsed_candidate.notna().mean() > 0.6, the mean taken over all the rows
ParseRateAccepted(series) ==
    Len(series) > 0 /\ 10 * Len(parsed_notna(series)) > 6 * Len(series)

\* whether the column enters temporal_columns
IsTemporal(col) ==
    LET candidate == IF col.dtype = "datetime64" THEN TRUE
                     ELSE IF col.dtype = "object" THEN ParseRateAccepted(col.series)
                     ELSE FALSE
    IN candidate /\ Len(parsed_notna(col.series)) > MinParsedListed

\* the "columns" entry of the result
temporal_columns(frame) ==
    LET names == [k \in 1..Len(frame) |-> frame[k].name]
    IN SelectSeq(names, LAMBDA n : \E k \in 1..Len(frame) : frame[k].name = n /\ IsTemporal(frame[k]))

TemporalSeries(d, t, u) == Rep("date", d) \o Rep("text", t) \o Rep("null", u)

TemporalColumns(maxDates, maxOther) ==
    {[name |-> "data", dtype |-> "object", series |-> TemporalSeries(d, t, u)] :
        d \in 0..maxDates, t \in 0..maxOther, u \in 0..maxOther}
    \cup {[name |-> "data", dtype |-> "datetime64", series |-> TemporalSeries(d, 0, u)] :
        d \in 0..maxDates, u \in 0..maxOther}
    \cup {[name |-> "data", dtype |-> "float64", series |-> TemporalSeries(0, 0, u)] :
        u \in 1..maxOther}

TemporalArgs(maxDates, maxOther) ==
    {[fn |-> "detect_temporal_patterns", frame |-> <<c>>] :
        c \in TemporalColumns(maxDates, maxOther)}

InitTemporal ==
    /\ pc = "call"
    /\ fn_args \in TemporalArgs(MaxDates, MaxOther)
    /\ fn_out = NoOut
    /\ df = NoDataset
    /\ result = NoResult
    /\ result2 = NoResult
    /\ off_results = <<>>
    /\ off_top = NoTop
    /\ ctx = NoCtx
    /\ orch = NoOrch
    /\ run = NoRun
    /\ ret = NoRet

DetectTemporalPatterns ==
    /\ pc = "call"
    /\ fn_out' = [fn |-> "detect_temporal_patterns",
                  columns |-> temporal_columns(fn_args.frame)]
    /\ pc' = "returned"
    /\ UNCHANGED <<fn_args, rule_vars, offender_vars, agent_vars>>

NextTemporal == DetectTemporalPatterns

SpecTemporal == InitTemporal /\ [][NextTemporal]_vars

CellsOf(col, kind) == Cardinality({i \in 1..Len(col.series) : col.series[i] = kind})

\* C18: a non-numeric column is listed as temporal exactly when more than 0.6
\* of its non-null values parse as dates and at least 10 of its rows parse.
C18_TemporalIffParsed ==
    pc = "returned" =>
        \A k \in 1..Len(fn_args.frame) :
            LET col == fn_args.frame[k]
                dates == CellsOf(col, "date")
                nonnull == dates + CellsOf(col, "text")
            IN col.dtype # "float64" =>
                  ((\E i \in 1..Len(fn_out.columns) : fn_out.columns[i] = col.name)
                      <=> (10 * dates > 6 * nonnull /\ dates >= 10))

-----------------------------------------------------------------------------
(* _normalize_dataframe (fiscal/domain/data_loader.py).  A header is a      *)
(* sequence of symbols: words, possibly capitalised, and the separators     *)
(* " ", "-" and "_".  A column carries the position it had in the input.    *)

MaxHeaders == 3      \* columns of the frame handed to _normalize_dataframe

\* unicodedata.normalize("NFKD", ...).encode("ascii", "ignore").lower() of a word
LowerWord(w) ==
    IF w \in {"Valor", "VALOR"} THEN "valor"
    ELSE IF w \in {"Total", "TOTAL"} THEN "total"
    ELSE IF w \in {"Número", "Numero"} THEN "numero"
    ELSE w

\* the tokens "/", "\", "-", "(", ")", "%", ":", ";" become a space
TokenToSpace(w) == IF w = "-" THEN " " ELSE w

\* cleaned.split(): the runs of symbols between spaces, empty runs dropped
RECURSIVE SplitParts(_, _)
SplitParts(s, part) ==
    IF s = <<>> THEN (IF part = <<>> THEN <<>> ELSE <<part>>)
    ELSE IF Head(s) = " "
    THEN (IF part = <<>> THEN <<>> ELSE <<part>>) \o SplitParts(Tail(s), <<>>)
    ELSE SplitParts(Tail(s), Append(part, Head(s)))

\* "_".join(parts)
RECURSIVE JoinParts(_)
JoinParts(parts) ==
    IF parts = <<>> THEN <<>>
    ELSE IF Len(parts) = 1 THEN parts[1]
    ELSE parts[1] \o <<"_">> \o JoinParts(Tail(parts))

_normalize_label(label) ==
    LET cleaned == [i \in 1..Len(label) |-> TokenToSpace(LowerWord(label[i]))]
    IN JoinParts(SplitParts(cleaned, <<>>))

\* _COLUMN_ALIASES.get(norm, norm), for the entries the headers can reach
_COLUMN_ALIASES(norm) ==
    IF norm = <<"valor", "_", "total">> THEN <<"valor", "_", "total", "_", "item">>
    ELSE IF norm = <<"numero", "_", "produto">> THEN <<"numero", "_", "item">>
    ELSE IF norm = <<"numero", "_", "item">> THEN <<"numero", "_", "nota">>
    ELSE norm

canonical(label) == _COLUMN_ALIASES(_normalize_label(label))

\* Variant: of the columns with one name the last is kept
KeptLast(names, i) == \A j \in (i + 1)..Len(names) : names[j] # names[i]

\* ~df.columns.duplicated(): the first column of each name
Kept(names, i) == \A j \in 1..(i - 1) : names[j] # names[i]

\* the frame returned: name and input position of each column; numero_item
\* is added, without data, when no column has that name
_normalize_dataframe(headers) ==
    LET names == [i \in 1..Len(headers) |-> canonical(headers[i])]
        keep == SelectSeq([i \in 1..Len(headers) |-> i], LAMBDA i : Kept(names, i))
        cols == [k \in 1..Len(keep) |-> [name |-> names[keep[k]], data |-> keep[k]]]
    IN IF \E k \in 1..Len(cols) : cols[k].name = <<"numero", "_", "item">>
       THEN cols
       ELSE Append(cols, [name |-> <<"numero", "_", "item">>, data |-> 0])

HeaderSeparators == {<<" ">>, <<"-">>, <<"_">>}

HeaderFamily ==
    {<<w>> \o sep \o <<"total">> : w \in {"valor", "Valor"}, sep \in HeaderSeparators}
    \cup {<<"VALOR", " ", "TOTAL", " ", "item">>, <<"total">>, <<"Total", " ">>,
          <<"Número", " ", "produto">>, <<"numero", "_", "item">>, <<" ">>}

\* the names the validation engine reads its columns by
EngineNames ==
    {<<"chave", "_", "acesso">>, <<"numero">>, <<"numero", "_", "item">>, <<"cfop">>,
     <<"ncm">>, <<"quantidade">>, <<"valor", "_", "unitario">>,
     <<"valor", "_", "total", "_", "item">>, <<"valor", "_", "total", "_", "nota">>,
     <<"descricao", "_", "item">>}

NormalizeArgs(maxHeaders) ==
    UNION {{[fn |-> "_normalize_dataframe", headers |-> h] :
               h \in [1..n -> HeaderFamily] \cup [1..n -> EngineNames]} :
           n \in 1..maxHeaders}

InitNormalize ==
    /\ pc = "call"
    /\ fn_args \in NormalizeArgs(MaxHeaders)
    /\ fn_out = NoOut
    /\ df = NoDataset
    /\ result = NoResult
    /\ result2 = NoResult
    /\ off_results = <<>>
    /\ off_top = NoTop
    /\ ctx = NoCtx
    /\ orch = NoOrch
    /\ run = NoRun
    /\ ret = NoRet

NormalizeDataframe ==
    /\ pc = "call"
    /\ LET cols == _normalize_dataframe(fn_args.headers)
       IN fn_out' = [fn |-> "_normalize_dataframe", columns |-> cols,
                     \* the frame returned, normalised once more
                     again |-> _normalize_dataframe([k \in 1..Len(cols) |-> cols[k].name])]
    /\ pc' = "returned"
    /\ UNCHANGED <<fn_args, rule_vars, offender_vars, agent_vars>>

NextNormalize == NormalizeDataframe

SpecNormalize == InitNormalize /\ [][NextNormalize]_vars

\* input columns whose header normalises to name
InputsNamed(name) ==
    {i \in 1..Len(fn_args.headers) : canonical(fn_args.headers[i]) = name}

\* C19: after _normalize_dataframe the column names are pairwise distinct, every
\* input header's normalised name is among them, and the data under a name is
\* that of the leftmost input column normalising to it.
C19_UniqueNamesFirstKept ==
    pc = "returned" =>
        LET cols == fn_out.columns
        IN /\ \A i, j \in 1..Len(cols) : cols[i].name = cols[j].name => i = j
           /\ \A i \in 1..Len(fn_args.headers) :
                 \E k \in 1..Len(cols) : cols[k].name = canonical(fn_args.headers[i])
           /\ \A k \in 1..Len(cols) :
                 IF InputsNamed(cols[k].name) = {} THEN cols[k].data = 0
                 ELSE /\ cols[k].data \in InputsNamed(cols[k].name)
                      /\ \A i \in InputsNamed(cols[k].name) : cols[k].data <= i

\* "Valor-total" (through the alias of valor_total) and "VALOR TOTAL item" meet
\* under valor_total_item: the data of the former, which comes first, is kept
C19_Witness ==
    /\ pc = "returned"
    /\ Len(fn_args.headers) = 3
    /\ fn_args.headers[1] = <<"total">>
    /\ fn_args.headers[2] = <<"Valor", "-", "total">>
    /\ fn_args.headers[3] = <<"VALOR", " ", "TOTAL", " ", "item">>
    /\ \E k \in 1..Len(fn_out.columns) :
          /\ fn_out.columns[k].name = <<"valor", "_", "total", "_", "item">>
          /\ fn_out.columns[k].data = 2

\* C26: an input column already named with a name of the validation engine
\* keeps that name, and its data unless an earlier column took the name; and
\* normalising the frame returned once more changes no column name.
C26_CanonicalNamesKept ==
    pc = "returned" =>
        LET cols == fn_out.columns
        IN /\ \A i \in 1..Len(fn_args.headers) :
                 fn_args.headers[i] \in EngineNames =>
                     \E k \in 1..Len(cols) :
                         /\ cols[k].name = fn_args.headers[i]
                         /\ \/ cols[k].data = i
                            \/ \E j \in 1..(i - 1) :
                                  canonical(fn_args.headers[j]) = fn_args.headers[i]
           /\ Len(fn_out.again) = Len(cols)
           /\ \A k \in 1..Len(cols) : fn_out.again[k].name = cols[k].name

-----------------------------------------------------------------------------
(* The risk summary of resumo_riscos: summarize_issues(results) sorted by    *)
(* the columns severidade (ascending) and ocorrencias (descending).          *)

MaxRiskResults == 3  \* results handed to the risk summary

Letters ==
    <<"a", "b", "c", "d", "e", "f", "g", "h", "i", "j", "k", "l", "m",
      "n", "o", "p", "q", "r", "s", "t", "u", "v", "w", "x", "y", "z">>

Ord(c) == CHOOSE i \in 1..Len(Letters) : Letters[i] = c

\* the characters of a severity label
SeverityText(sev) ==
    IF sev = "alta" THEN <<"a", "l", "t", "a">>
    ELSE IF sev = "media" THEN <<"m", "e", "d", "i", "a">>
    ELSE <<"b", "a", "i", "x", "a">>

\* s < t as Python compares str
RECURSIVE StrLess(_, _)
StrLess(s, t) ==
    IF t = <<>> THEN FALSE
    ELSE IF s = <<>> THEN TRUE
    ELSE IF Head(s) # Head(t) THEN Ord(Head(s)) < Ord(Head(t))
    ELSE StrLess(Tail(s), Tail(t))

\* summarize_issues: one row per result
summarize_issues(results) ==
    [k \in 1..Len(results) |->
        [regra |-> results[k].title, id |-> results[k].identifier,
         severidade |-> results[k].severity,
         ocorrencias |-> Len(results[k].details)]]

\* row x sorts before row y under
\* sort_values(["severidade", "ocorrencias"], ascending=[True, False])
SortsBefore(x, y) ==
    \/ StrLess(SeverityText(x.severidade), SeverityText(y.severidade))
    \/ x.severidade = y.severidade /\ x.ocorrencias > y.ocorrencias

RECURSIVE SortRows(_)
SortRows(rows) ==
    IF rows = <<>> THEN <<>>
    ELSE LET m == CHOOSE i \in 1..Len(rows) :
                     /\ \A j \in 1..Len(rows) : ~SortsBefore(rows[j], rows[i])
                     /\ \A j \in 1..(i - 1) : SortsBefore(rows[i], rows[j])
         IN <<rows[m]>> \o SortRows([k \in 1..(Len(rows) - 1) |->
                                        IF k < m THEN rows[k] ELSE rows[k + 1]])

\* the frame resumo_riscos renders
risk_summary(results) == SortRows(summarize_issues(results))

RiskDetails == {[j \in 1..n |-> [chave_acesso |-> "K1"]] : n \in 1..2}

RiskInputs(maxResults) ==
    UNION {{[k \in 1..n |->
                ValidationResult(RuleIdentifiers[k], RuleTitles[k], sev[k], dets[k])] :
               sev \in [1..n -> {"alta", "media", "baixa"}],
               dets \in [1..n -> RiskDetails]} : n \in 0..maxResults}

InitRisk ==
    /\ pc = "call"
    /\ fn_args \in {[fn |-> "resumo_riscos", results |-> r] : r \in RiskInputs(MaxRiskResults)}
    /\ fn_out = NoOut
    /\ df = NoDataset
    /\ result = NoResult
    /\ result2 = NoResult
    /\ off_results = <<>>
    /\ off_top = NoTop
    /\ ctx = NoCtx
    /\ orch = NoOrch
    /\ run = NoRun
    /\ ret = NoRet

RiskSummary ==
    /\ pc = "call"
    /\ fn_out' = [fn |-> "resumo_riscos", ordered |-> risk_summary(fn_args.results)]
    /\ pc' = "returned"
    /\ UNCHANGED <<fn_args, rule_vars, offender_vars, agent_vars>>

NextRisk == RiskSummary

SpecRisk == InitRisk /\ [][NextRisk]_vars

SeverityRank(sev) == IF sev = "alta" THEN 1 ELSE IF sev = "media" THEN 2 ELSE 3

\* C16: the risk summary lists the rules with alta before media before baixa,
\* and rules of one severity by occurrence count descending.
C16_SeverityThenCount ==
    pc = "returned" =>
        /\ Len(fn_out.ordered) = Len(fn_args.results)
        /\ \A i \in 1..(Len(fn_out.ordered) - 1) :
              LET x == fn_out.ordered[i]
                  y == fn_out.ordered[i + 1]
              IN \/ SeverityRank(x.severidade) < SeverityRank(y.severidade)
                 \/ /\ x.severidade = y.severidade
                    /\ x.ocorrencias >= y.ocorrencias

-----------------------------------------------------------------------------
(* The ingestion handler's row iterators: stream_csv_rows and                *)
(* stream_ndjson_rows read up to sample_limit records into a sample and hand *)
(* back an iterator over the sample and the rest of the reader.  A file is a *)
(* sequence of lines; a record line carries its line number.                 *)

MaxLines == 4        \* lines of a file after the CSV header
MaxSample == 3       \* sample_limit
MaxBatch == 2        \* BATCH_SIZE

Line(kind, n) == [kind |-> kind, n |-> n]

\* the loop over the reader: "for cells in reader" with the sample filled
\* while count < sample_limit; on the first record past the sample the
\* function returns gen_rows(), which yields the sample and then what the
\* reader still holds
RECURSIVE ScanReader(_, _, _, _)
ScanReader(reader, sample_rows, count, sample_limit) ==
    IF reader = <<>> THEN sample_rows
    ELSE IF count < sample_limit
    THEN ScanReader(Tail(reader), Append(sample_rows, Head(reader)), count + 1,
                    sample_limit)
    ELSE sample_rows \o Tail(reader)

\* the rows the iterator of stream_csv_rows yields: the first line is the
\* header, an empty file gives an empty iterator
stream_csv_rows(lines, sample_limit) ==
    IF lines = <<>> THEN <<>>
    ELSE ScanReader(Tail(lines), <<>>, 0, sample_limit)

\* the rows the iterator of stream_ndjson_rows yields: blank lines are passed
\* over, in the sampling loop and in gen_rows alike
stream_ndjson_rows(lines, sample_limit) ==
    ScanReader(SelectSeq(lines, LAMBDA l : l.kind # "blank"), <<>>, 0, sample_limit)

\* the batch loop of lambda_handler when every insert succeeds: processed
\* grows by the length of each batch handed to supabase_rest_insert
RECURSIVE Processed(_, _)
Processed(rows, batch_size) ==
    IF Len(rows) >= batch_size
    THEN batch_size + Processed(SubSeq(rows, batch_size + 1, Len(rows)), batch_size)
    ELSE Len(rows)

\* files: a header and record lines, or record and blank lines
CsvFiles(maxLines) ==
    {<<>>} \cup {<<Line("header", 0)>> \o [i \in 1..n |-> Line("record", i)] :
                    n \in 0..maxLines}

NdjsonFiles(maxLines) ==
    UNION {{[i \in 1..n |-> Line(kinds[i], i)] : kinds \in [1..n -> {"record", "blank"}]} :
              n \in 0..maxLines}

StreamArgs(maxLines, maxSample, maxBatch) ==
    {[fn |-> "stream_csv_rows", lines |-> f, sample_limit |-> lim, batch_size |-> b] :
        f \in CsvFiles(maxLines), lim \in 0..maxSample, b \in 1..maxBatch}
    \cup {[fn |-> "stream_ndjson_rows", lines |-> f, sample_limit |-> lim,
           batch_size |-> b] :
             f \in NdjsonFiles(maxLines), lim \in 0..maxSample, b \in 1..maxBatch}

InitStream ==
    /\ pc = "call"
    /\ fn_args \in StreamArgs(MaxLines, MaxSample, MaxBatch)
    /\ fn_out = NoOut
    /\ df = NoDataset
    /\ result = NoResult
    /\ result2 = NoResult
    /\ off_results = <<>>
    /\ off_top = NoTop
    /\ ctx = NoCtx
    /\ orch = NoOrch
    /\ run = NoRun
    /\ ret = NoRet

\* lambda_handler on one object: the iterator is built and drained in batches
LambdaHandler ==
    /\ pc = "call"
    /\ LET rows == IF fn_args.fn = "stream_csv_rows"
                   THEN stream_csv_rows(fn_args.lines, fn_args.sample_limit)
                   ELSE stream_ndjson_rows(fn_args.lines, fn_args.sample_limit)
       IN fn_out' = [fn |-> fn_args.fn, rows |-> rows,
                     processed |-> Processed(rows, fn_args.batch_size)]
    /\ pc' = "returned"
    /\ UNCHANGED <<fn_args, rule_vars, offender_vars, agent_vars>>

NextStream == LambdaHandler

SpecStream == InitStream /\ [][NextStream]_vars

\* the data records of the call's file, in input order
DataRecords == SelectSeq(fn_args.lines, LAMBDA l : l.kind = "record")

\* C25: for every CSV or NDJSON input and every sample_limit the iterator
\* yields every data record exactly once and in input order, never the CSV
\* header, and the handler inserts as many rows as the file has data records.
C25_EveryRecordOnce ==
    pc = "returned" =>
        /\ fn_out.rows = DataRecords
        /\ fn_out.processed = Len(DataRecords)

-----------------------------------------------------------------------------
(* supabase_rest_insert: the POST of one batch, retried while PostgREST has  *)
(* not reloaded its schema cache.  A response is what request.urlopen does:  *)
(* it returns, raises HTTPError with a status and a body, or raises another  *)
(* error (URLError, a timeout).                                              *)

MaxBatchRows == 5    \* rows of the batch handed to supabase_rest_insert
MaxAttempts == 3

Response(kind, code, pgrst205) == [kind |-> kind, code |-> code, pgrst205 |-> pgrst205]

Responses ==
    {Response("ok", 201, FALSE), Response("URLError", 0, FALSE),
     Response("timeout", 0, FALSE)}
    \cup {Response("HTTPError", c, b) : c \in {400, 404, 500}, b \in BOOLEAN}

NoCall ==
    [posts |-> <<>>, attempt |-> 0, outcome |-> "none", error |-> "none", value |-> 0,
     processed |-> 0]

InitInsert ==
    /\ pc = "call"
    /\ fn_args \in {[fn |-> "supabase_rest_insert", rows |-> n] : n \in 0..MaxBatchRows}
    /\ fn_out = [fn |-> "supabase_rest_insert"] @@ NoCall
    /\ df = NoDataset
    /\ result = NoResult
    /\ result2 = NoResult
    /\ off_results = <<>>
    /\ off_top = NoTop
    /\ ctx = NoCtx
    /\ orch = NoOrch
    /\ run = NoRun
    /\ ret = NoRet

\* "if not rows: return 0"
InsertNothing ==
    /\ pc = "call"
    /\ fn_args.rows = 0
    /\ fn_out' = [fn_out EXCEPT !.outcome = "returned", !.value = 0]
    /\ pc' = "returned"
    /\ UNCHANGED <<fn_args, rule_vars, offender_vars, agent_vars>>

\* Variant: the last attempt is retried like the ones before it
RetryAlways(resp, attempt) ==
    resp.kind = "HTTPError" /\ resp.code = 404 /\ resp.pgrst205

\* "e.code == 404 and 'PGRST205' in body and attempt < 2"
Retry(resp, attempt) ==
    resp.kind = "HTTPError" /\ resp.code = 404 /\ resp.pgrst205 /\ attempt < 2

\* one pass of "for attempt in range(3)": the POST and what follows from its
\* response.  A return hands len(rows) to the caller, which adds it to
\* processed; when the loop runs out the function returns None.
Post ==
    /\ pc \in {"call", "posting"}
    /\ fn_args.rows > 0
    /\ \E resp \in Responses :
         LET posts == Append(fn_out.posts, resp)
         IN IF resp.kind = "ok"
            THEN /\ fn_out' = [fn_out EXCEPT !.posts = posts, !.outcome = "returned",
                                             !.value = fn_args.rows,
                                             !.processed = fn_args.rows]
                 /\ pc' = "returned"
            ELSE IF Retry(resp, fn_out.attempt)
            THEN IF fn_out.attempt + 1 < MaxAttempts
                 THEN /\ fn_out' = [fn_out EXCEPT !.posts = posts, !.attempt = @ + 1]
                      /\ pc' = "posting"
                 ELSE /\ fn_out' = [fn_out EXCEPT !.posts = posts,
                                                  !.outcome = "returned None"]
                      /\ pc' = "returned"
            ELSE /\ fn_out' = [fn_out EXCEPT !.posts = posts, !.outcome = "raised",
                                             !.error = resp.kind]
                 /\ pc' = "raised"
    /\ UNCHANGED <<fn_args, rule_vars, offender_vars, agent_vars>>

NextInsert == InsertNothing \/ Post

SpecInsert == InitInsert /\ [][NextInsert]_vars

Ended == pc \in {"returned", "raised"}

\* the POSTs before the last one
Earlier == SubSeq(fn_out.posts, 1, Len(fn_out.posts) - 1)

\* C29 as stated: with a non-empty batch there are at most 3 POSTs, each one
\* but the last answered by 404 with PGRST205, and the call ends by returning
\* the number of rows after a successful POST or by raising the HTTP error.
C29_AsClaimed ==
    (fn_args.fn = "supabase_rest_insert" /\ fn_args.rows > 0) =>
        /\ Len(fn_out.posts) <= 3
        /\ Ended =>
             /\ \A i \in 1..Len(Earlier) :
                   Earlier[i] = Response("HTTPError", 404, TRUE)
             /\ \/ /\ fn_out.outcome = "returned"
                   /\ fn_out.value = fn_args.rows
                   /\ fn_out.posts[Len(fn_out.posts)].kind = "ok"
                \/ /\ fn_out.outcome = "raised"
                   /\ fn_out.error = "HTTPError"

\* C29: with a non-empty batch there are at most 3 POSTs, each one but the
\* last answered by 404 with PGRST205; the call ends by returning the number
\* of rows after a successful POST or by raising the error of the last POST,
\* an HTTP error or the error of a request that got no response; rows are
\* counted as processed only after a successful POST.
C29_InsertedOrRaised ==
    (fn_args.fn = "supabase_rest_insert" /\ fn_args.rows > 0) =>
        /\ Len(fn_out.posts) <= 3
        /\ fn_out.processed > 0 => fn_out.posts[Len(fn_out.posts)].kind = "ok"
        /\ Ended =>
             /\ \A i \in 1..Len(Earlier) :
                   Earlier[i] = Response("HTTPError", 404, TRUE)
             /\ \/ /\ fn_out.outcome = "returned"
                   /\ fn_out.value = fn_args.rows
                   /\ fn_out.processed = fn_args.rows
                   /\ fn_out.posts[Len(fn_out.posts)].kind = "ok"
                \/ /\ fn_out.outcome = "raised"
                   /\ fn_out.error = fn_out.posts[Len(fn_out.posts)].kind
                   /\ fn_out.error # "ok"
                   /\ fn_out.processed = 0

\* the third POST is answered by 404 with PGRST205 like the two before it: the
\* error is raised
C29_Witness ==
    /\ pc = "raised"
    /\ fn_args.rows > 0
    /\ Len(fn_out.posts) = 3
    /\ \A i \in 1..3 : fn_out.posts[i] = Response("HTTPError", 404, TRUE)
    /\ fn_out.error = "HTTPError"

====
